---- MODULE Spec2Model ----
(***************************************************************************)
(* Model of the anemia-screening server: the inference adapter            *)
(*   models/ModelManager.js (src/unnamed/part_002, lines 40-407), the      *)
(*   legacy inline pipeline of the first server.js (src/unnamed/part_000), *)
(*   and the routes of src/server.js for uploads, sessions and accounts,   *)
(*   with the earlier signup and login routes (src/signup-routes.js,       *)
(*   src/unnamed/part_003).                                                *)
(*                                                                         *)
(* Seven specifications share the variables (and SpecFair, Spec with the   *)
(* fairness of the timers and of the session's creation):                  *)
(*   Spec     the ModelManager's life (initialize, loadModel, its retry    *)
(*            timers, retryLoadModel) interleaved with predict() calls;    *)
(*   SpecPre  preprocessImage, one step per await and per batch of the     *)
(*            normalisation loop;                                          *)
(*   SpecVal  validateImageFile applied to bounded file descriptions;      *)
(*   SpecUpload  one POST /predict request through requireAuth, multer,    *)
(*            the handler, predict() and savePatientResult;                *)
(*   SpecAuth  two clients' requests to the guarded routes, POST /login    *)
(*            and POST /logout, one step per await;                        *)
(*   SpecUsers  two clients' account-creating and password-changing        *)
(*            requests, one step per await;                                *)
(*   SpecAdmin  two logged-in clients' requests to the admin API on the    *)
(*            accounts and to the routes that return assessments.          *)
(*                                                                         *)
(* JavaScript numbers that the adapter compares or returns are records     *)
(* [kind, v]: kind "num" with the integer v (model outputs and confidences *)
(* in units of 10^-5, so 0.5 is 50000; file sizes in bytes), or the kinds  *)
(* "NaN" and "undefined".  Float32Array entries are kept as signed         *)
(* IEEE-754 binary32 bit patterns (sign * (exponent field * 2^23 +         *)
(* fraction)), so that storing a value rounds it as the typed array does.  *)
(***************************************************************************)
EXTENDS Integers, Sequences, FiniteSets, TLC

VARIABLES
    sessionONNX,        \* this.sessionONNX: 0 is null, n > 0 the session created by load attempt n
    modelLoadAttempts,  \* this.modelLoadAttempts
    isLoading,          \* this.isLoading
    createPending,      \* loadModel is suspended at `await ort.InferenceSession.create`
    timers,             \* number of pending setTimeout(() => this.loadModel(), 2000)
    initCalls,          \* calls of initialize() made so far
    retryCalls,         \* calls of retryLoadModel() made so far
    modelOutputs,       \* what the model file computes: image -> raw output scalar
    req,                \* the predict() calls: position, captured values, outcome
    pre,                \* one preprocessImage call: position, image, buffer, loop counter
    val,                \* one validateImageFile call: its argument and its return value
    upload,             \* one POST /predict request: position, upload, file on disk, response
    patientResults,     \* the PatientResult collection (patient_results table)
    users,              \* the User collection
    sessions,           \* the session store: client (cookie) -> session data
    http,               \* each client's request in flight: route, position, response
    assessments         \* the DoctorAssessment collection

vars == <<sessionONNX, modelLoadAttempts, isLoading, createPending, timers,
          initCalls, retryCalls, modelOutputs, req, pre, val,
          upload, patientResults, users, sessions, http, assessments>>

mmVars == <<sessionONNX, modelLoadAttempts, isLoading, createPending, timers,
            initCalls, retryCalls, modelOutputs>>

upVars == <<upload, patientResults>>
authVars == <<users, sessions, http, assessments>>
webVars == <<upVars, authVars>>

\* the web server's variables in the specifications that have no request
WebIdle ==
    /\ upload = [pc |-> "idle"]
    /\ patientResults = <<>>
    /\ users = {}
    /\ sessions = <<>>
    /\ http = <<>>
    /\ assessments = {}

----------------------------------------------------------------------------
(* Bounds of the model *)

NumReqs == 2          \* concurrent predict() calls
MaxInitCalls == 1     \* calls of initialize()
MaxRetryCalls == 1    \* calls of retryLoadModel()

Reqs == 1..NumReqs

----------------------------------------------------------------------------
(* JavaScript numbers *)

Num(x) == [kind |-> "num", v |-> x]
NaN == [kind |-> "NaN", v |-> 0]
Undefined == [kind |-> "undefined", v |-> 0]

IsNum(a) == a.kind = "num"

\* a > b and a < b of JavaScript: false as soon as an operand is NaN or
\* undefined (undefined converts to NaN)
JsGt(a, b) == IsNum(a) /\ IsNum(b) /\ a.v > b.v
JsLt(a, b) == IsNum(a) /\ IsNum(b) /\ a.v < b.v

Min(a, b) == IF a < b THEN a ELSE b

\* Math.ceil(a / b) for positive integers
Ceil(a, b) == (a + b - 1) \div b

----------------------------------------------------------------------------
(* Images and the buffer sharp decodes them to *)

\* An uploaded image, by what sharp makes of it: ok says how far sharp can
\* read the file ("none": not at all, "header": metadata() succeeds and
\* toBuffer() fails, "full": both succeed), len is the length of the raw
\* buffer that resize(224, 224).removeAlpha().raw().toBuffer() yields (3
\* bytes a pixel for a colour image, 1 for a greyscale one, 4 when an
\* extra channel survives) and pat names the bytes of the buffer.
MkImage(ok, len, pat) == [ok |-> ok, len |-> len, pat |-> pat]

\* buffer[k] of the decoded image: a byte, or undefined past the end
Byte(img, k) ==
    IF k < 0 \/ k >= img.len THEN Undefined
    ELSE CASE img.pat = "gray" -> Num(128)
           [] img.pat = "red"  -> Num(IF k % 3 = 0 THEN 255 ELSE 0)
           [] OTHER            -> Num((7 * k + 3) % 251)

----------------------------------------------------------------------------
(* 32-bit floats *)

TwoTo23 == 2 ^ 23
F32NaN == 255 * TwoTo23 + 2 ^ 22    \* the quiet NaN, 0x7FC00000

\* is the binary32 with these bits neither NaN nor an infinity:
\* Number.isFinite(v) of validateModelInput
F32IsFinite(bits) ==
    LET mag == IF bits < 0 THEN 0 - bits ELSE bits
    IN  mag \div TwoTo23 # 255

\* Doubling long division: q = floor(a * 2^k / d) with remainder r, continued
\* until q has 24 significant bits; yields <<q, r, k>>.
RECURSIVE Scale24(_, _, _, _)
Scale24(q, r, d, k) ==
    IF q >= TwoTo23 THEN <<q, r, k>>
    ELSE Scale24(2 * q + (2 * r) \div d, (2 * r) % d, d, k + 1)

\* The binary32 nearest to n / d (d > 0, 2^-100 < |n / d| < 2^24), ties to
\* even: what storing the quotient into a Float32Array keeps.
Fround(n, d) ==
    IF n = 0 THEN 0
    ELSE LET a == IF n < 0 THEN 0 - n ELSE n
             s == Scale24(a \div d, a % d, d, 0)
             q == s[1]
             r == s[2]
             up == (2 * r > d) \/ (2 * r = d /\ q % 2 = 1)
             m == IF up THEN q + 1 ELSE q
             \* m = 2^24 carries into the exponent: the encoding adds up
             mag == (23 - s[3] + 127) * TwoTo23 + (m - TwoTo23)
         IN  IF n < 0 THEN 0 - mag ELSE mag

----------------------------------------------------------------------------
(* preprocessImage *)

\* expectedSize of a decoder that yields one byte a pixel
expectedSizeOneChannel == 224 * 224

expectedSize == 224 * 224 * 3
totalPixels == 224 * 224
batchSize == 1000
TensorLen == 3 * 224 * 224

\* mean and std of the normalisation, in thousandths; channels 0, 1, 2
mean == <<485, 456, 406>>
std == <<229, 224, 225>>

\* NormalizeByte dividing the byte by 256
NormalizeByte256(v, c) == Fround(1000 * v - 256 * mean[c + 1], 256 * std[c + 1])

\* (raw / 255.0 - mean[c]) / std[c] for the byte value v of channel c, as the
\* Float32Array keeps it
NormalizeByte(v, c) == Fround(1000 * v - 255 * mean[c + 1], 255 * std[c + 1])

\* NormalizeByte of the bytes lo..hi of channel c, in a sequence
RECURSIVE NormRow(_, _, _)
NormRow(c, lo, hi) ==
    IF lo = hi THEN <<NormalizeByte(lo, c)>>
    ELSE LET mid == (lo + hi) \div 2
         IN  NormRow(c, lo, mid) \o NormRow(c, mid + 1, hi)

\* the normalised value of every byte value, by channel
NormTable == <<NormRow(0, 0, 255), NormRow(1, 0, 255), NormRow(2, 0, 255)>>

\* the normalised value of buffer entry raw; an undefined entry gives NaN
Normalize(raw, c) ==
    IF IsNum(raw) THEN NormTable[c + 1][raw.v + 1] ELSE F32NaN

\* the number of turns of the outer loop
NumBatches == Ceil(totalPixels, batchSize)
startIdx(batch) == batch * batchSize
endIdx(batch) == Min(startIdx(batch) + batchSize, totalPixels)

\* The three stores of one turn of the inner loop, for pixel i and channel c
\* (0 red, 1 green, 2 blue):
\*   float32Data[i + StoreOffset(c)] = normalised buffer[LoadIndex(i, c)]
\* StoreOffset with the channels in the order blue, green, red
StoreOffsetBGR(c) == (2 - c) * totalPixels

StoreOffset(c) == c * totalPixels
LoadIndex(i, c) == i * 3 + c

\* has the inner loop run for pixel i within the first nb batches: batch b
\* runs it for the i of startIdx(b) .. endIdx(b) - 1, which lie in
\* b * batchSize .. (b + 1) * batchSize - 1
Processed(nb, i) ==
    /\ i >= 0
    /\ i \div batchSize < nb
    /\ i >= startIdx(i \div batchSize)
    /\ i < endIdx(i \div batchSize)

\* float32Data[j] once the first nb batches of the loop have run: the value
\* of the latest store to j (the pixel index grows, so the store of the
\* lowest channel is the latest), or the 0 a new Float32Array holds.
float32Data(img, nb, j) ==
    IF Processed(nb, j - StoreOffset(0))
    THEN Normalize(Byte(img, LoadIndex(j - StoreOffset(0), 0)), 0)
    ELSE IF Processed(nb, j - StoreOffset(1))
    THEN Normalize(Byte(img, LoadIndex(j - StoreOffset(1), 1)), 1)
    ELSE IF Processed(nb, j - StoreOffset(2))
    THEN Normalize(Byte(img, LoadIndex(j - StoreOffset(2), 2)), 2)
    ELSE 0

\* how many stores the first nb batches made to float32Data[j]
writeCount(nb, j) ==
    Cardinality({c \in 0..2 : Processed(nb, j - StoreOffset(c))})

\* new ort.Tensor('float32', float32Data, [1, 3, 224, 224]): the tensor is
\* kept by the image it was computed from; its data are TensorData
Tensor(img) == [image |-> img, dims |-> <<1, 3, 224, 224>>]
TensorData(tensor, j) == float32Data(tensor.image, NumBatches, j)

Throw(msg) == [threw |-> TRUE, error |-> msg]
Return(x) == [threw |-> FALSE, value |-> x]

\* preprocessImage(imagePath) as a whole: the tensor, or the Error it throws
preprocessImage(img) ==
    IF img.ok = "none"
    THEN Throw("Image preprocessing failed: Input file is missing or of an unsupported image format")
    ELSE IF img.ok = "header"
    THEN Throw("Image preprocessing failed: Input file has corrupt image data")
    ELSE IF img.len # expectedSize
    THEN Throw("Image preprocessing failed: Buffer size mismatch")
    ELSE Return(Tensor(img))

\* validateModelInput(inputTensor): true, or the Error it throws
validateModelInput(inputTensor) ==
    IF \E j \in 0..(TensorLen - 1) : ~F32IsFinite(TensorData(inputTensor, j))
    THEN Throw("Input tensor contains NaN or infinite values")
    ELSE Return(TRUE)

\* preprocessImage of the first server.js: no check of the buffer's length,
\* one loop over the pixels i and, within it, over the channels c, storing
\* float32Data[c * 224 * 224 + i] = (buffer[i * 3 + c] / 255 - mean[c]) / std[c]
LegacyStoreIndex(i, c) == c * 224 * 224 + i
LegacyLoadIndex(i, c) == i * 3 + c

\* float32Data[j] after the loops of the legacy preprocessImage
legacyFloat32Data(img, j) ==
    LET cs == {c \in 0..2 : /\ j - c * 224 * 224 >= 0
                            /\ j - c * 224 * 224 < 224 * 224
                            /\ LegacyStoreIndex(j - c * 224 * 224, c) = j}
    IN  IF cs = {} THEN 0
        ELSE LET c == CHOOSE x \in cs : TRUE
             IN  Normalize(Byte(img, LegacyLoadIndex(j - c * 224 * 224, c)), c)

----------------------------------------------------------------------------
(* preprocessImage, step by step *)

\* The call is at pc: "start" (awaiting metadata()), "buffer" (awaiting
\* toBuffer()), "loop" (batch turns of the outer loop done), "done" (tensor
\* returned) or "failed" (Error thrown, in error).  dataLen is the length of
\* the Float32Array once allocated; impl says which implementation runs.

\* sharp(imagePath).metadata() settles
PreMetadataSettles ==
    /\ pre.pc = "start"
    /\ pre.impl = "ModelManager"
    /\ IF pre.img.ok = "none"
       THEN pre' = [pre EXCEPT !.pc = "failed", !.error = preprocessImage(pre.img).error]
       ELSE pre' = [pre EXCEPT !.pc = "buffer"]
    /\ UNCHANGED <<mmVars, req, val, webVars>>

\* toBuffer() settles; the buffer's length is checked and the Float32Array
\* allocated
PreBufferSettles ==
    /\ pre.pc = "buffer"
    /\ IF pre.img.ok # "full" \/ pre.img.len # expectedSize
       THEN pre' = [pre EXCEPT !.pc = "failed", !.error = preprocessImage(pre.img).error]
       ELSE pre' = [pre EXCEPT !.pc = "loop", !.dataLen = TensorLen]
    /\ UNCHANGED <<mmVars, req, val, webVars>>

\* one turn of the outer loop: a batch of at most batchSize pixels
PreBatch ==
    /\ pre.pc = "loop"
    /\ pre.batch < Ceil(totalPixels, batchSize)
    /\ pre' = [pre EXCEPT !.batch = @ + 1]
    /\ UNCHANGED <<mmVars, req, val, webVars>>

\* the loop is over: the tensor is made and returned
PreReturns ==
    /\ pre.pc = "loop"
    /\ ~(pre.batch < Ceil(totalPixels, batchSize))
    /\ pre' = [pre EXCEPT !.pc = "done"]
    /\ UNCHANGED <<mmVars, req, val, webVars>>

\* the legacy preprocessImage, as a whole: toBuffer() settles and the loops
\* run over whatever buffer it gave
PreLegacy ==
    /\ pre.pc = "start"
    /\ pre.impl = "legacy"
    /\ IF pre.img.ok # "full"
       THEN pre' = [pre EXCEPT !.pc = "failed", !.error = "Input file is missing or corrupt"]
       ELSE pre' = [pre EXCEPT !.pc = "done", !.dataLen = 3 * 224 * 224]
    /\ UNCHANGED <<mmVars, req, val, webVars>>

\* float32Data[j] of the call, at its position
PreData(j) ==
    IF pre.impl = "legacy"
    THEN IF pre.pc = "done" THEN legacyFloat32Data(pre.img, j) ELSE 0
    ELSE float32Data(pre.img, pre.batch, j)

\* the images preprocessImage is applied to
PreImages ==
    {MkImage("none", 0, "gray"), MkImage("header", 0, "gray")}
    \cup {MkImage("full", n, "ramp") :
            n \in {0, 224 * 224, 224 * 224 * 3 - 1, 224 * 224 * 3 + 1, 224 * 224 * 4}}
    \cup {MkImage("full", 224 * 224 * 3, pat) : pat \in {"gray", "red", "ramp"}}

InitPre ==
    /\ sessionONNX = 0
    /\ modelLoadAttempts = 0
    /\ isLoading = FALSE
    /\ createPending = FALSE
    /\ timers = 0
    /\ initCalls = 0
    /\ retryCalls = 0
    /\ modelOutputs = [i \in {MkImage("full", 224 * 224 * 3, "ramp")} |-> Num(0)]
    /\ req = <<>>
    /\ val = [pc |-> "idle", errors |-> <<>>]
    /\ WebIdle
    /\ \E img \in PreImages, impl \in {"ModelManager", "legacy"} :
          pre = [pc |-> "start", img |-> img, dataLen |-> 0, batch |-> 0,
                 error |-> "", impl |-> impl]

NextPre ==
    \/ PreMetadataSettles
    \/ PreBufferSettles
    \/ PreBatch
    \/ PreReturns
    \/ PreLegacy

SpecPre == InitPre /\ [][NextPre]_vars

----------------------------------------------------------------------------
(* ModelManager: loading the model *)

maxLoadAttempts == 3

\* the catch block of loadModel: the attempt failed
LoadFailed(pendingTimers) ==
    /\ isLoading' = FALSE
    /\ createPending' = FALSE
    /\ timers' = IF modelLoadAttempts' < maxLoadAttempts
                 THEN pendingTimers + 1     \* setTimeout(() => this.loadModel(), 2000)
                 ELSE pendingTimers
    /\ UNCHANGED sessionONNX

\* loadModel() up to its first await, called with pendingTimers timers
\* pending.  The model file is missing, empty or present; with a missing or
\* an empty file the attempt throws before it awaits anything.
loadModel(pendingTimers) ==
    IF isLoading
    THEN /\ timers' = pendingTimers
         /\ UNCHANGED <<sessionONNX, modelLoadAttempts, isLoading, createPending>>
    ELSE /\ modelLoadAttempts' = modelLoadAttempts + 1
         /\ \E file \in {"missing", "empty", "present"} :
               IF file = "present"
               THEN /\ isLoading' = TRUE
                    /\ createPending' = TRUE
                    /\ timers' = pendingTimers
                    /\ UNCHANGED sessionONNX
               ELSE LoadFailed(pendingTimers)

\* ort.InferenceSession.create settles: the session, or a rejection
CreateSettles ==
    /\ createPending
    /\ UNCHANGED <<modelLoadAttempts, initCalls, retryCalls, modelOutputs, req, pre, val, webVars>>
    /\ \/ /\ sessionONNX' = modelLoadAttempts
          /\ isLoading' = FALSE
          /\ createPending' = FALSE
          /\ UNCHANGED timers
       \/ LoadFailed(timers)

\* initialize(): await this.loadModel()
Initialize ==
    /\ initCalls < MaxInitCalls
    /\ initCalls' = initCalls + 1
    /\ loadModel(timers)
    /\ UNCHANGED <<retryCalls, modelOutputs, req, pre, val, webVars>>

\* retryLoadModel()
RetryLoadModel ==
    /\ retryCalls < MaxRetryCalls
    /\ retryCalls' = retryCalls + 1
    /\ IF modelLoadAttempts < maxLoadAttempts
       THEN loadModel(timers)
       ELSE UNCHANGED <<sessionONNX, modelLoadAttempts, isLoading, createPending, timers>>
    /\ UNCHANGED <<initCalls, modelOutputs, req, pre, val, webVars>>

\* a retry timer of loadModel's catch block fires
TimerFires ==
    /\ timers > 0
    /\ loadModel(timers - 1)
    /\ UNCHANGED <<initCalls, retryCalls, modelOutputs, req, pre, val, webVars>>

----------------------------------------------------------------------------
(* ModelManager.predict *)

\* the images predict is called with
BrokenImage == MkImage("none", 0, "gray")
GreyscaleImage == MkImage("full", 224 * 224, "ramp")
ColourImage == MkImage("full", 224 * 224 * 3, "ramp")
PredictImages == {BrokenImage, GreyscaleImage, ColourImage}

\* the raw output scalars a model file may compute (0.5 is 50000)
RawOutputs == {NaN} \cup {Num(x) : x \in {-20000, 0, 49999, 50000, 50001, 80000, 100000, 130000}}

\* Date.now() - startTime
InferenceTimes == {12, 13}

\* step 1 of predict for each image of the model: what preprocessImage
\* yields, the tensor or the Error thrown
Preprocessed == [img \in PredictImages |-> preprocessImage(img)]

\* step 2 of predict for each tensor of step 1: what validateModelInput yields
Validated ==
    [img \in {i \in PredictImages : ~preprocessImage(i).threw} |->
        validateModelInput(Tensor(img))]

\* A predict call: pc is its position, img its argument, preprocessed and
\* runs count its calls of preprocessImage and of session.run, outcome says
\* whether it returned or threw, result is the value returned and
\* end names the way it ended: "noModel", "preprocessError",
\* "validateError", "runError" or "decided".
NoResult == [prediction |-> "none"]
IdleReq == [pc |-> "idle", img |-> BrokenImage, preprocessed |-> 0, runs |-> 0,
            outcome |-> "none", result |-> NoResult, end |-> "none"]

\* the value predict returns when no model is loaded
DefaultPrediction ==
    [prediction |-> "Anemic", confidence |-> Num(80000), usingDefaultPrediction |-> TRUE]

\* PredictCatch with the error thrown on to the caller of predict
PredictCatchRethrow(error) ==
    [outcome |-> "threw", result |-> [prediction |-> "none", error |-> error]]

\* the catch block of predict: the call returns the cautious default
PredictCatch(error) ==
    [outcome |-> "returned",
     result |-> [prediction |-> "Anemic", confidence |-> Num(80000),
                 usingDefaultPrediction |-> TRUE, error |-> error]]

\* Interpret with the boundary on the other side: raw >= 0.5 is Non-anemic
InterpretInclusive(rawConfidence, inferenceTime) ==
    [outcome |-> "returned",
     result |-> [prediction |-> IF IsNum(rawConfidence) /\ rawConfidence.v >= 50000
                                THEN "Non-anemic" ELSE "Anemic",
                 confidence |-> rawConfidence,
                 usingDefaultPrediction |-> FALSE,
                 debug |-> [rawOutput |-> rawConfidence,
                            inferenceTime |-> inferenceTime]]]

\* Interpret reporting the confidence in the label: 1 - raw for Anemic
InterpretInverted(rawConfidence, inferenceTime) ==
    [outcome |-> "returned",
     result |-> [prediction |-> IF JsGt(rawConfidence, Num(50000))
                                THEN "Non-anemic" ELSE "Anemic",
                 confidence |-> IF JsGt(rawConfidence, Num(50000)) \/ ~IsNum(rawConfidence)
                                THEN rawConfidence
                                ELSE Num(100000 - rawConfidence.v),
                 usingDefaultPrediction |-> FALSE,
                 debug |-> [rawOutput |-> rawConfidence,
                            inferenceTime |-> inferenceTime]]]

\* step 4 of predict: the interpretation of the raw output
Interpret(rawConfidence, inferenceTime) ==
    [outcome |-> "returned",
     result |-> [prediction |-> IF JsGt(rawConfidence, Num(50000))
                                THEN "Non-anemic" ELSE "Anemic",
                 confidence |-> rawConfidence,
                 usingDefaultPrediction |-> FALSE,
                 debug |-> [rawOutput |-> rawConfidence,
                            inferenceTime |-> inferenceTime]]]

Finish(r, how, end) ==
    req' = [req EXCEPT ![r].pc = "done", ![r].outcome = how.outcome,
                       ![r].result = how.result, ![r].end = end]

\* PredictCall without the check of this.sessionONNX
PredictCallUnchecked(r, img) ==
    /\ req[r].pc = "idle"
    /\ req' = [req EXCEPT ![r].pc = "preprocessing", ![r].img = img,
                          ![r].preprocessed = @ + 1]
    /\ UNCHANGED <<mmVars, pre, val, webVars>>

\* predict(imagePath) is called: without a model it returns the default at
\* once, otherwise it calls preprocessImage and awaits it
PredictEntered(r, img) ==
    IF sessionONNX = 0
    THEN [req EXCEPT ![r].pc = "done", ![r].img = img,
                     ![r].outcome = "returned",
                     ![r].result = DefaultPrediction,
                     ![r].end = "noModel"]
    ELSE [req EXCEPT ![r].pc = "preprocessing", ![r].img = img,
                     ![r].preprocessed = @ + 1]

PredictCall(r, img) ==
    /\ req[r].pc = "idle"
    /\ req' = PredictEntered(r, img)
    /\ UNCHANGED <<mmVars, pre, val, webVars>>

\* PreprocessSettles with steps 1 and 2 outside the try block: their Errors
\* reach the caller of predict
PreprocessSettlesUncaught(r) ==
    /\ req[r].pc = "preprocessing"
    /\ LET p == Preprocessed[req[r].img]
       IN  IF p.threw
           THEN Finish(r, PredictCatchRethrow(p.error), "preprocessError")
           ELSE LET v == Validated[req[r].img]
                IN  IF v.threw
                    THEN Finish(r, PredictCatchRethrow(v.error), "validateError")
                    ELSE req' = [req EXCEPT ![r].pc = "inferring", ![r].runs = @ + 1]
    /\ UNCHANGED <<mmVars, pre, val, webVars>>

\* PreprocessSettles going on to session.run whatever steps 1 and 2 gave
PreprocessSettlesUnvalidated(r) ==
    /\ req[r].pc = "preprocessing"
    /\ req' = [req EXCEPT ![r].pc = "inferring", ![r].runs = @ + 1]
    /\ UNCHANGED <<mmVars, pre, val, webVars>>

\* preprocessImage settles; on its tensor predict validates it and calls
\* this.sessionONNX.run(feeds); an Error of either step goes to the catch block
PreprocessSettles(r) ==
    /\ req[r].pc = "preprocessing"
    /\ LET p == Preprocessed[req[r].img]
       IN  IF p.threw
           THEN Finish(r, PredictCatch(p.error), "preprocessError")
           ELSE LET v == Validated[req[r].img]
                IN  IF v.threw
                    THEN Finish(r, PredictCatch(v.error), "validateError")
                    ELSE req' = [req EXCEPT ![r].pc = "inferring", ![r].runs = @ + 1]
    /\ UNCHANGED <<mmVars, pre, val, webVars>>

\* RunSettles with a model whose output is drawn afresh on every run
RunSettlesUnseeded(r) ==
    /\ req[r].pc = "inferring"
    /\ \/ \E t \in InferenceTimes, raw \in RawOutputs :
             Finish(r, Interpret(raw, t), "decided")
       \/ Finish(r, PredictCatch("inference failed"), "runError")
    /\ UNCHANGED <<mmVars, pre, val, webVars>>

\* RunSettles calling session.run again after a fault
RunSettlesRetrying(r) ==
    /\ req[r].pc = "inferring"
    /\ \/ \E t \in InferenceTimes :
             Finish(r, Interpret(modelOutputs[req[r].img], t), "decided")
       \/ IF req[r].runs < 2
          THEN req' = [req EXCEPT ![r].runs = @ + 1]
          ELSE Finish(r, PredictCatch("inference failed"), "runError")
    /\ UNCHANGED <<mmVars, pre, val, webVars>>

\* session.run settles: with the output of the model, or with a fault
RunSettles(r) ==
    /\ req[r].pc = "inferring"
    /\ \/ \E t \in InferenceTimes :
             Finish(r, Interpret(modelOutputs[req[r].img], t), "decided")
       \/ Finish(r, PredictCatch("inference failed"), "runError")
    /\ UNCHANGED <<mmVars, pre, val, webVars>>

----------------
(* The specification of the ModelManager with its predict calls *)

PreIdle == [pc |-> "idle", img |-> BrokenImage, dataLen |-> 0, batch |-> 0,
            error |-> "", impl |-> "none"]
ValIdle == [pc |-> "idle", errors |-> <<>>]

Init ==
    /\ sessionONNX = 0
    /\ modelLoadAttempts = 0
    /\ isLoading = FALSE
    /\ createPending = FALSE
    /\ timers = 0
    /\ initCalls = 0
    /\ retryCalls = 0
    /\ modelOutputs \in [{ColourImage} -> RawOutputs]
    /\ req = [r \in Reqs |-> IdleReq]
    /\ pre = PreIdle
    /\ val = ValIdle
    /\ WebIdle

Next ==
    \/ Initialize
    \/ RetryLoadModel
    \/ TimerFires
    \/ CreateSettles
    \/ \E r \in Reqs, img \in PredictImages : PredictCall(r, img)
    \/ \E r \in Reqs : PreprocessSettles(r)
    \/ \E r \in Reqs : RunSettles(r)

Spec == Init /\ [][Next]_vars

----------------------------------------------------------------------------
(* validateImageFile *)

\* File names are sequences of one-character strings.
UpperCase == <<"A", "B", "C", "D", "E", "F", "G", "H", "I", "J", "K", "L", "M",
               "N", "O", "P", "Q", "R", "S", "T", "U", "V", "W", "X", "Y", "Z">>
LowerCase == <<"a", "b", "c", "d", "e", "f", "g", "h", "i", "j", "k", "l", "m",
               "n", "o", "p", "q", "r", "s", "t", "u", "v", "w", "x", "y", "z">>

\* String.prototype.toLowerCase
toLowerCase(str) ==
    [k \in 1..Len(str) |->
        IF \E n \in 1..26 : UpperCase[n] = str[k]
        THEN LowerCase[CHOOSE n \in 1..26 : UpperCase[n] = str[k]]
        ELSE str[k]]

\* the greatest position of character ch in str, 0 when there is none
LastIndexOf(str, ch) ==
    IF \E k \in 1..Len(str) : str[k] = ch
    THEN CHOOSE k \in 1..Len(str) :
             str[k] = ch /\ \A m \in (k + 1)..Len(str) : str[m] # ch
    ELSE 0

\* path.extname: from the last '.' of the last path component to the end;
\* empty without a '.', and when the only '.' begins the component
extname(p) ==
    LET slash == LastIndexOf(p, "/")
        base == SubSeq(p, slash + 1, Len(p))
        dot == LastIndexOf(base, ".")
    IN  IF dot = 0 THEN <<>>
        ELSE IF dot = 1 THEN <<>>
        ELSE IF base = <<".", ".">> THEN <<>>
        ELSE SubSeq(base, dot, Len(base))

allowedTypes == {"image/jpeg", "image/jpg", "image/png", "image/gif", "image/webp"}

allowedExtensions ==
    {<<".", "j", "p", "g">>, <<".", "j", "p", "e", "g">>, <<".", "p", "n", "g">>,
     <<".", "g", "i", "f">>, <<".", "w", "e", "b", "p">>}

\* the four checks of validateImageFile, each with its message
SizeError(file) ==
    IF JsGt(file.size, Num(10 * 1024 * 1024))
    THEN <<"File size exceeds 10MB limit">> ELSE <<>>

SmallError(file) ==
    IF JsLt(file.size, Num(1024))
    THEN <<"File size too small (minimum 1KB)">> ELSE <<>>

\* TypeError without the check of the MIME type
TypeErrorIgnored(file) == <<>>

TypeError(file) ==
    IF file.mimetype \notin allowedTypes
    THEN <<"Invalid file type. Please upload JPEG, PNG, GIF, or WebP images only.">>
    ELSE <<>>

ExtensionError(file) ==
    IF toLowerCase(extname(file.originalname)) \notin allowedExtensions
    THEN <<"Invalid file extension">> ELSE <<>>

\* validateImageFile(file): the list of errors
validateImageFile(file) ==
    IF ~file.provided THEN <<"No file provided">>
    ELSE SizeError(file) \o SmallError(file) \o TypeError(file) \o ExtensionError(file)

\* The files validateImageFile is given.  bytes is the number of bytes of the
\* upload; size is the file object's size field: the tests pass the number,
\* multer's fileFilter (src/server.js:439-455) passes the file before it is
\* stored, when it has no size field yet.
FileNames ==
    {<<"t", "e", "s", "t", ".", "j", "p", "g">>,
     <<"I", "M", "G", ".", "J", "P", "G">>,
     <<"e", "y", "e", ".", "j", "p", "e", "g">>,
     <<"e", "y", "e", ".", "P", "n", "g">>,
     <<"a", ".", "g", "i", "f">>,
     <<"a", ".", "w", "e", "b", "p">>,
     <<"t", "e", "s", "t", ".", "t", "x", "t">>,
     <<"e", "y", "e", ".", "j", "p", "g", ".", "e", "x", "e">>,
     <<"e", "y", "e", "j", "p", "g">>,
     <<".", "j", "p", "g">>,
     <<"e", "y", "e", ".", "j", "p", "g", ".">>,
     <<"a", ".", "d", "/", "p", "n", "g">>,
     <<"a", ".", "b", "m", "p">>}

MimeTypes == allowedTypes \cup {"text/plain", "image/bmp", "application/pdf"}

FileBytes == {0, 1023, 1024, 1025, 10 * 1024 * 1024 - 1, 10 * 1024 * 1024,
              10 * 1024 * 1024 + 1}

NoFile == [provided |-> FALSE]

MkFile(b, sized, m, n) ==
    [provided |-> TRUE, bytes |-> b, size |-> IF sized THEN Num(b) ELSE Undefined,
     mimetype |-> m, originalname |-> n]

Files ==
    {NoFile} \cup
    {MkFile(b, sized, m, n) :
        b \in FileBytes, sized \in BOOLEAN, m \in MimeTypes, n \in FileNames}

\* validateImageFile is called and returns
Validate ==
    /\ val.pc = "called"
    /\ val' = [val EXCEPT !.pc = "returned", !.errors = validateImageFile(val.file)]
    /\ UNCHANGED <<mmVars, req, pre, webVars>>

InitVal ==
    /\ sessionONNX = 0
    /\ modelLoadAttempts = 0
    /\ isLoading = FALSE
    /\ createPending = FALSE
    /\ timers = 0
    /\ initCalls = 0
    /\ retryCalls = 0
    /\ modelOutputs = [i \in {MkImage("full", 224 * 224 * 3, "ramp")} |-> Num(0)]
    /\ req = <<>>
    /\ pre = [pc |-> "idle", img |-> MkImage("none", 0, "gray"), dataLen |-> 0,
              batch |-> 0, error |-> "", impl |-> "none"]
    /\ WebIdle
    /\ \E f \in Files : val = [pc |-> "called", file |-> f, errors |-> <<>>]

NextVal == Validate

SpecVal == InitVal /\ [][NextVal]_vars

----------------------------------------------------------------------------
(* POST /predict: requireAuth, upload.single('eyelid'), the handler *)

\* The request is at pc: "received", "filter" (multer calls fileFilter),
\* "storing" and "writing" (diskStorage streams the part to the uploads
\* directory), "handler", "predicting" (awaiting modelManager.predict),
\* "legacyPreprocess" and "legacyRun" (the inline pipeline of the first
\* server.js), "saving" (awaiting savePatientResult) or "done".  impl is
\* "server" (src/server.js) or "legacy" (the first server.js); file is the
\* uploaded part and image what sharp decodes it to; onDisk says whether
\* req.file.path exists; handled whether the route handler ran; tensors
\* counts the tensors the legacy pipeline made; pending is the document
\* being saved.

\* the predict() call the handler makes
uploadCall == 1

\* limits.fileSize of the two multer configurations
fileSizeLimit(impl) ==
    IF impl = "server" THEN 10 * 1024 * 1024 ELSE 5 * 1024 * 1024

\* /jpeg|jpg|png|gif/.test(file.mimetype) on the MIME types of the model
LegacyMimeAllowed(m) == m \in {"image/jpeg", "image/jpg", "image/png", "image/gif"}

\* whether sub occurs in str
Contains(str, sub) ==
    \E k \in 1..(Len(str) - Len(sub) + 1) : SubSeq(str, k, k + Len(sub) - 1) = sub

\* /jpeg|jpg|png|gif/.test(path.extname(file.originalname).toLowerCase())
LegacyExtAllowed(n) ==
    LET ext == toLowerCase(extname(n))
    IN  \E w \in {<<"j", "p", "e", "g">>, <<"j", "p", "g">>, <<"p", "n", "g">>,
                  <<"g", "i", "f">>} : Contains(ext, w)

\* the fileFilter of the configuration: the list of errors, empty to accept
fileFilter(impl, file) ==
    IF impl = "server"
    THEN validateImageFile(file)
    ELSE IF LegacyMimeAllowed(file.mimetype) /\ LegacyExtAllowed(file.originalname)
         THEN <<>> ELSE <<"Only image files allowed">>

\* a || b on numbers: b when a is 0, NaN or undefined
JsOr(a, b) == IF IsNum(a) /\ a.v # 0 THEN a ELSE b

\* Math.round(confidence * 100), confidence in units of 10^-5
RoundPercent(a) == IF IsNum(a) THEN Num((a.v + 500) \div 1000) ELSE NaN

NoResponse == [status |-> 0]
Redirect(to) == [status |-> 302, location |-> to]
JsonError(code, msg) == [status |-> code, error |-> msg]

\* the uploads of the model: none, or a part whose file object has no size
\* yet when fileFilter sees it
UploadBytes == {2048, 5 * 1024 * 1024 + 1, 10 * 1024 * 1024, 10 * 1024 * 1024 + 1}
UploadMimes == {"image/jpeg", "image/webp", "text/plain"}
UploadNames == {<<"t", "e", "s", "t", ".", "j", "p", "g">>,
                <<"t", "e", "s", "t", ".", "t", "x", "t">>}
UploadFiles ==
    {NoFile} \cup
    {MkFile(b, FALSE, m, n) : b \in UploadBytes, m \in UploadMimes, n \in UploadNames}
UploadImages == {BrokenImage, ColourImage}

UploadDone(response) ==
    [upload EXCEPT !.pc = "done", !.response = response]

\* requireAuth, then multer: without a file part the handler is next
PredictRequireAuth ==
    /\ upload.pc = "received"
    /\ upload' = IF ~upload.loggedIn THEN UploadDone(Redirect("/login"))
                 ELSE IF upload.file.provided THEN [upload EXCEPT !.pc = "filter"]
                 ELSE [upload EXCEPT !.pc = "handler"]
    /\ UNCHANGED <<mmVars, req, pre, val, patientResults, authVars>>

\* multer calls fileFilter; on cb(new Error(...)) the request goes to the
\* error handler and the route handler is skipped
FileFilter ==
    /\ upload.pc = "filter"
    /\ upload' = IF fileFilter(upload.impl, upload.file) = <<>>
                 THEN [upload EXCEPT !.pc = "storing"]
                 ELSE UploadDone(JsonError(500, "fileFilter"))
    /\ UNCHANGED <<mmVars, req, pre, val, patientResults, authVars>>

\* diskStorage opens the destination file and pipes the part into it
StorageOpens ==
    /\ upload.pc = "storing"
    /\ upload' = [upload EXCEPT !.pc = "writing", !.onDisk = TRUE]
    /\ UNCHANGED <<mmVars, req, pre, val, patientResults, authVars>>

\* the part ends: past limits.fileSize multer removes what it wrote and
\* passes LIMIT_FILE_SIZE to the error handler, otherwise req.file is set
StorageSettles ==
    /\ upload.pc = "writing"
    /\ upload' = IF upload.file.bytes > fileSizeLimit(upload.impl)
                 THEN [UploadDone(JsonError(500, "LIMIT_FILE_SIZE")) EXCEPT !.onDisk = FALSE]
                 ELSE [upload EXCEPT !.pc = "handler"]
    /\ UNCHANGED <<mmVars, req, pre, val, patientResults, authVars>>

\* the catch block of the handler of src/server.js: the file is unlinked
\* when it exists, an Error of unlinkSync is logged only, and 500 is sent
PredictCatchBlock(cleanupOk) ==
    [UploadDone(JsonError(500, "Prediction failed")) EXCEPT
        !.onDisk = upload.onDisk /\ ~cleanupOk]

\* the handler of src/server.js up to `await modelManager.predict(...)`
PredictHandler ==
    /\ upload.pc = "handler"
    /\ upload.impl = "server"
    /\ IF ~upload.file.provided
       THEN /\ upload' = [UploadDone(JsonError(400, "No file uploaded")) EXCEPT
                             !.handled = TRUE]
            /\ UNCHANGED req
       ELSE IF ~upload.onDisk
       THEN /\ upload' = [PredictCatchBlock(TRUE) EXCEPT !.handled = TRUE]
            /\ UNCHANGED req
       ELSE /\ upload' = [upload EXCEPT !.pc = "predicting", !.handled = TRUE]
            /\ req' = PredictEntered(uploadCall, upload.image)
    /\ UNCHANGED <<mmVars, pre, val, patientResults, authVars>>

\* predict has settled: the final prediction and confidence are made and
\* savePatientResult runs up to `await patientResult.save()`
PredictReturns ==
    /\ upload.pc = "predicting"
    /\ req[uploadCall].pc = "done"
    /\ IF req[uploadCall].outcome = "threw"
       THEN \E cleanupOk \in BOOLEAN : upload' = PredictCatchBlock(cleanupOk)
       ELSE LET result == req[uploadCall].result
                valid == result.prediction \in {"Anemic", "Non-anemic"}
                finalPrediction == IF valid THEN result.prediction ELSE "Non-anemic"
                finalConfidence == IF valid THEN JsOr(result.confidence, Num(80000))
                                   ELSE Num(60000)
                safeConfidence == IF IsNum(finalConfidence) THEN finalConfidence
                                  ELSE Num(80000)
            IN  upload' = [upload EXCEPT
                    !.pc = "saving",
                    !.pending = [username |-> upload.username,
                                 prediction |-> finalPrediction,
                                 confidence |-> safeConfidence],
                    !.final = [prediction |-> finalPrediction,
                               confidence |-> finalConfidence,
                               usingDefaultPrediction |-> result.usingDefaultPrediction]]
    /\ UNCHANGED <<mmVars, req, pre, val, patientResults, authVars>>

\* patientResult.save() settles; after it the handler unlinks the file and
\* answers, and an Error of save or of unlinkSync goes to the catch block
SaveSettles ==
    /\ upload.pc = "saving"
    /\ upload.impl = "server"
    /\ \E saved \in BOOLEAN, unlinkOk \in BOOLEAN, cleanupOk \in BOOLEAN :
          /\ patientResults' = IF saved THEN Append(patientResults, upload.pending)
                               ELSE patientResults
          /\ upload' = IF saved /\ unlinkOk
                       THEN [UploadDone([status |-> 200, success |-> TRUE,
                                   prediction |-> upload.final.prediction,
                                   confidence |-> upload.final.confidence,
                                   confidencePercentage |->
                                       RoundPercent(upload.final.confidence),
                                   usingDefaultPrediction |->
                                       upload.final.usingDefaultPrediction])
                               EXCEPT !.onDisk = FALSE]
                       ELSE PredictCatchBlock(cleanupOk)
    /\ UNCHANGED <<mmVars, req, pre, val, authVars>>

\* the handler of the first server.js up to its first await
LegacyHandler ==
    /\ upload.pc = "handler"
    /\ upload.impl = "legacy"
    /\ upload' =
          IF ~upload.file.provided
          THEN [UploadDone(JsonError(400, "No file uploaded.")) EXCEPT !.handled = TRUE]
          ELSE IF sessionONNX = 0
          THEN [upload EXCEPT !.pc = "saving", !.handled = TRUE,
                              !.pending = [username |-> upload.username,
                                           prediction |-> "Anemic",
                                           confidence |-> Num(80000)]]
          ELSE [upload EXCEPT !.pc = "legacyPreprocess", !.handled = TRUE]
    /\ UNCHANGED <<mmVars, req, pre, val, patientResults, authVars>>

\* the legacy preprocessImage settles: sharp's Error goes to the catch
\* block, any buffer becomes a tensor that is given to sessionONNX.run
LegacyPreprocessSettles ==
    /\ upload.pc = "legacyPreprocess"
    /\ upload' = IF upload.image.ok # "full"
                 THEN UploadDone(JsonError(500, "Prediction failed."))
                 ELSE [upload EXCEPT !.pc = "legacyRun", !.tensors = @ + 1]
    /\ UNCHANGED <<mmVars, req, pre, val, patientResults, authVars>>

\* sessionONNX.run settles, with the output of the model or with a fault
LegacyRunSettles ==
    /\ upload.pc = "legacyRun"
    /\ \/ LET confidence == modelOutputs[upload.image]
          IN  upload' = [upload EXCEPT
                  !.pc = "saving",
                  !.pending = [username |-> upload.username,
                               prediction |-> IF JsGt(confidence, Num(50000))
                                              THEN "Non-anemic" ELSE "Anemic",
                               confidence |-> confidence]]
       \/ upload' = UploadDone(JsonError(500, "Prediction failed."))
    /\ UNCHANGED <<mmVars, req, pre, val, patientResults, authVars>>

\* the INSERT of the legacy savePatientResult settles; the file is left
\* where multer stored it
LegacySaveSettles ==
    /\ upload.pc = "saving"
    /\ upload.impl = "legacy"
    /\ \/ /\ patientResults' = Append(patientResults, upload.pending)
          /\ upload' = UploadDone([status |-> 200,
                                   prediction |-> upload.pending.prediction,
                                   confidence |-> upload.pending.confidence])
       \/ /\ upload' = UploadDone(JsonError(500, "Prediction failed."))
          /\ UNCHANGED patientResults
    /\ UNCHANGED <<mmVars, req, pre, val, authVars>>

InitUpload ==
    /\ \E loaded \in BOOLEAN :
          /\ sessionONNX = IF loaded THEN 1 ELSE 0
          /\ modelLoadAttempts = IF loaded THEN 1 ELSE maxLoadAttempts
    /\ isLoading = FALSE
    /\ createPending = FALSE
    /\ timers = 0
    /\ initCalls = 1
    /\ retryCalls = 0
    /\ modelOutputs \in [{ColourImage} -> RawOutputs]
    /\ req = [r \in Reqs |-> IdleReq]
    /\ pre = PreIdle
    /\ val = ValIdle
    /\ patientResults = <<>>
    /\ users = {}
    /\ sessions = <<>>
    /\ http = <<>>
    /\ assessments = {}
    /\ \E impl \in {"server", "legacy"}, loggedIn \in BOOLEAN,
          file \in UploadFiles, image \in UploadImages :
          upload = [pc |-> "received", impl |-> impl, loggedIn |-> loggedIn,
                    username |-> "patient", file |-> file, image |-> image,
                    onDisk |-> FALSE, handled |-> FALSE, tensors |-> 0,
                    pending |-> NoResult, final |-> NoResult,
                    response |-> NoResponse]

NextUpload ==
    \/ PredictRequireAuth
    \/ FileFilter
    \/ StorageOpens
    \/ StorageSettles
    \/ PredictHandler
    \/ \E r \in Reqs : PreprocessSettles(r)
    \/ \E r \in Reqs : RunSettles(r)
    \/ PredictReturns
    \/ SaveSettles
    \/ LegacyHandler
    \/ LegacyPreprocessSettles
    \/ LegacyRunSettles
    \/ LegacySaveSettles

SpecUpload == InitUpload /\ [][NextUpload]_vars

----------------------------------------------------------------------------
(* Users, sessions and the guards of the routes (src/server.js) *)

\* the browsers (session cookies) that send requests
Clients == {"c1", "c2"}

\* JavaScript values that may be a string, null or undefined (doctorId,
\* password): records [kind, v] as for the numbers
Str(s) == [kind |-> "string", v |-> s]
Null == [kind |-> "null", v |-> 0]

\* bcrypt.hash with the password not kept in the clear (the salt is left out)
bcryptHash(password) == [kind |-> "bcrypt", v |-> password]

\* bcryptCompare accepting every password
bcryptCompareAny(password, stored) == TRUE

\* bcrypt.compare(password, stored): whether stored is a hash of password
bcryptCompare(password, stored) == stored.kind = "bcrypt" /\ stored.v = password

doctorProfiles == [id \in {"1", "2", "3"} |-> [username |-> "doctor" \o id]]

\* new User({...}) with the _id the collection gives it
NewUser(us, username, password, role, doctorId) ==
    [id |-> Cardinality(us) + 1, username |-> username, password |-> password,
     role |-> role, doctorId |-> doctorId, is_active |-> TRUE]

NoUser == [id |-> 0, username |-> "", password |-> Undefined, role |-> "",
           doctorId |-> Undefined, is_active |-> FALSE]

\* User.findOne({ username }): the document, or NoUser for null
findOne(us, username) ==
    IF \E u \in us : u.username = username
    THEN CHOOSE u \in us : u.username = username
    ELSE NoUser

\* createDefaultAdmin and createDefaultDoctors, run before app.listen
createDefaultAdmin(us) ==
    IF \E u \in us : u.role = "admin" THEN us
    ELSE us \cup {NewUser(us, "admin", bcryptHash("admin123"), "admin", Undefined)}

RECURSIVE createDefaultDoctors(_, _)
createDefaultDoctors(us, ids) ==
    IF ids = <<>> THEN us
    ELSE LET doctorId == Head(ids)
             profile == doctorProfiles[doctorId]
             existing == findOne(us, profile.username)
             fixed == [existing EXCEPT !.password = bcryptHash(profile.username)]
         IN  createDefaultDoctors(
                 IF existing = NoUser
                 THEN us \cup {NewUser(us, profile.username,
                                       bcryptHash(profile.username), "doctor",
                                       Str(doctorId))}
                 ELSE IF bcryptCompare(profile.username, existing.password) THEN us
                 ELSE (us \ {existing}) \cup {fixed},
                 Tail(ids))

\* the accounts after startup on an empty database
DefaultUsers == createDefaultDoctors(createDefaultAdmin({}), <<"1", "2", "3">>)

\* a session: what POST /login sets; "" stands for a field not set
EmptySession == [loggedIn |-> FALSE, username |-> "", role |-> "", doctorId |-> Undefined]
SessionOf(user) ==
    [loggedIn |-> TRUE, username |-> user.username, role |-> user.role,
     doctorId |-> user.doctorId]

\* requireAuth without the check of req.session.loggedIn
requireAuthOpen(session) == NoResponse

\* the middlewares: the response they send, or NoResponse for next()
requireAuth(session) ==
    IF ~session.loggedIn THEN Redirect("/login") ELSE NoResponse

\* requireAdmin without the check of req.session.role
requireAdminAnyRole(session) ==
    IF ~session.loggedIn THEN Redirect("/login") ELSE NoResponse

requireAdmin(session) ==
    IF ~session.loggedIn THEN Redirect("/login")
    ELSE IF session.role # "admin" THEN [status |-> 403]
    ELSE NoResponse

AuthRoutes == {"/dashboard", "/doctor/:id", "/api/getDoctorAssessments"}
AdminRoutes ==
    {"/admin", "/api/admin/users", "/api/admin/users/:username/toggle-status",
     "/api/admin/doctor-assessments", "/api/admin/users/:username"}

guard(route, session) ==
    IF route \in AdminRoutes THEN requireAdmin(session) ELSE requireAuth(session)

\* A request of a client: pc is "idle", "done" or the await it is at; arg is
\* the :id, ?doctorId or :username; username, password are the body of POST
\* /login; user is what findOne gave and before the session when the request
\* came; handled says whether the route handler ran; logout is the outcome
\* of the client's last POST /logout since its last successful login.
IdleHttp ==
    [pc |-> "idle", route |-> "", arg |-> Undefined, username |-> "",
     password |-> "", user |-> NoUser, before |-> EmptySession,
     handled |-> FALSE, response |-> NoResponse, logout |-> "none"]

Arrives(c, route, arg) ==
    [IdleHttp EXCEPT !.pc = "handler", !.route = route, !.arg = arg,
                     !.before = sessions[c], !.logout = http[c].logout]

Answered(r, response, handled) ==
    [r EXCEPT !.pc = "done", !.response = response, !.handled = handled]

\* res.sendFile(view) or res.json(rows)
Served(view, rows) == [status |-> 200, view |-> view, rows |-> rows]

\* the handlers of the pages and of the reading APIs
dashboard(session) ==
    IF session.role = "doctor"
    THEN [status |-> 302, location |-> "/doctor/:id", id |-> session.doctorId]
    ELSE IF session.role = "admin" THEN Redirect("/admin")
    ELSE Served("dashboard.html", {})

doctorDashboard(session, id) ==
    IF session.role # "doctor" THEN [status |-> 403]
    ELSE IF session.doctorId # id THEN [status |-> 403]
    ELSE IF id.v \notin DOMAIN doctorProfiles THEN [status |-> 404]
    ELSE Served("doctor", {a \in assessments : Str(a.doctorId) = id})

getDoctorAssessments(session, doctorId) ==
    IF session.role # "doctor" THEN [status |-> 403]
    ELSE IF session.doctorId # doctorId THEN [status |-> 403]
    ELSE Served("assessments", {a \in assessments : Str(a.doctorId) = doctorId})

\* GET /api/test-doctor-data/:doctorId: the profile and the first five
\* assessments of the doctor, whoever asks
testDoctorData(doctorId) ==
    IF doctorId.v \notin DOMAIN doctorProfiles THEN [status |-> 404]
    ELSE Served("test-doctor-data", {a \in assessments : Str(a.doctorId) = doctorId})

handler(route, session, arg) ==
    IF route = "/dashboard" THEN dashboard(session)
    ELSE IF route = "/doctor/:id" THEN doctorDashboard(session, arg)
    ELSE IF route = "/api/getDoctorAssessments" THEN getDoctorAssessments(session, arg)
    ELSE IF route = "/admin" THEN Served("admin-dashboard.html", {})
    ELSE IF route = "/api/test-doctor-data/:doctorId" THEN testDoctorData(arg)
    ELSE IF route = "/api/admin/doctor-assessments" THEN Served("doctor-assessments", assessments)
    ELSE Served("users", {[u EXCEPT !.password = Undefined] : u \in users})

\* what the clients send
LoginBodies ==
    {[username |-> "admin", password |-> "admin123"],
     [username |-> "doctor1", password |-> "doctor1"],
     [username |-> "alice", password |-> "alice123"],
     [username |-> "eve", password |-> "alice123"],
     [username |-> "alice", password |-> "admin123"],
     [username |-> "ghost", password |-> "admin123"]}
RouteArgs(route) ==
    IF route = "/doctor/:id" THEN {Str("1"), Str("2")}
    ELSE IF route = "/api/getDoctorAssessments" THEN {Str("1"), Str("2"), Undefined}
    ELSE IF route = "/api/admin/users/:username/toggle-status" THEN {Str("alice"), Str("admin"), Str("ghost")}
    ELSE {Undefined}

Ready(c) == http[c].pc \in {"idle", "done"}

\* GET of a page or of a reading API: the guard, then the handler
Get(c, route, arg) ==
    /\ Ready(c)
    /\ LET session == sessions[c]
           denied == guard(route, session)
       IN  http' = [http EXCEPT ![c] =
                IF denied # NoResponse
                THEN Answered(Arrives(c, route, arg), denied, FALSE)
                ELSE Answered(Arrives(c, route, arg), handler(route, session, arg), TRUE)]
    /\ UNCHANGED <<users, sessions, assessments, mmVars, req, pre, val, upVars>>

\* POST /api/admin/users/:username/toggle-status: requireAdmin, then the
\* handler up to await User.findOne
ToggleStatus(c, arg) ==
    /\ Ready(c)
    /\ LET route == "/api/admin/users/:username/toggle-status"
           denied == guard(route, sessions[c])
       IN  http' = [http EXCEPT ![c] =
                IF denied # NoResponse
                THEN Answered(Arrives(c, route, arg), denied, FALSE)
                ELSE [Arrives(c, route, arg) EXCEPT !.pc = "findOne", !.handled = TRUE]]
    /\ UNCHANGED <<users, sessions, assessments, mmVars, req, pre, val, upVars>>

\* findOne settles: 404, 403 for an admin, or is_active flipped and saved
ToggleStatusSettles(c) ==
    /\ http[c].pc = "findOne"
    /\ http[c].route = "/api/admin/users/:username/toggle-status"
    /\ LET user == findOne(users, http[c].arg.v)
       IN  IF user = NoUser
           THEN /\ http' = [http EXCEPT ![c] = Answered(@, JsonError(404, "User not found"), TRUE)]
                /\ users' = users
           ELSE IF user.role = "admin"
           THEN /\ http' = [http EXCEPT ![c] =
                        Answered(@, JsonError(403, "Cannot modify admin user status"), TRUE)]
                /\ users' = users
           ELSE /\ users' = (users \ {user}) \cup {[user EXCEPT !.is_active = ~user.is_active]}
                /\ http' = [http EXCEPT ![c] = Answered(@, Served("success", {}), TRUE)]
    /\ UNCHANGED <<sessions, assessments, mmVars, req, pre, val, upVars>>

\* POST /login up to await User.findOne
Login(c, username, password) ==
    /\ Ready(c)
    /\ http' = [http EXCEPT ![c] =
            [Arrives(c, "/login", Undefined) EXCEPT !.pc = "findOne", !.handled = TRUE,
                                                    !.username = username,
                                                    !.password = password]]
    /\ UNCHANGED <<users, sessions, assessments, mmVars, req, pre, val, upVars>>

\* findOne settles (found says whether the query succeeded): the handler
\* goes on to await bcrypt.compare or redirects with an error
LoginLookupSettles(c, found) ==
    /\ http[c].pc = "findOne"
    /\ http[c].route = "/login"
    /\ LET user == findOne(users, http[c].username)
       IN  http' = [http EXCEPT ![c] =
               IF ~found THEN Answered(@, Redirect("/login?error=Login failed"), TRUE)
               ELSE IF user = NoUser
               THEN Answered([@ EXCEPT !.user = user],
                             Redirect("/login?error=Invalid username or password"), TRUE)
               ELSE IF ~user.is_active
               THEN Answered([@ EXCEPT !.user = user],
                             Redirect("/login?error=Account is inactive"), TRUE)
               ELSE [@ EXCEPT !.pc = "compare", !.user = user]]
    /\ UNCHANGED <<users, sessions, assessments, mmVars, req, pre, val, upVars>>

\* bcrypt.compare settles (compared says whether it did not throw): the
\* session is set on a match only
LoginCompareSettles(c, compared) ==
    /\ http[c].pc = "compare"
    /\ LET user == http[c].user
           isMatch == bcryptCompare(http[c].password, user.password)
       IN  IF compared /\ isMatch
           THEN /\ sessions' = [sessions EXCEPT ![c] = SessionOf(user)]
                /\ http' = [http EXCEPT ![c] =
                        Answered([@ EXCEPT !.logout = "none"], Redirect("/dashboard"), TRUE)]
           ELSE /\ sessions' = sessions
                /\ http' = [http EXCEPT ![c] =
                        Answered(@, IF compared
                                    THEN Redirect("/login?error=Invalid username or password")
                                    ELSE Redirect("/login?error=Login failed"), TRUE)]
    /\ UNCHANGED <<users, assessments, mmVars, req, pre, val, upVars>>

\* POST /logout: req.session.destroy, whose callback redirects whether or
\* not the store reported an error (destroyed says whether it did not)
Logout(c, destroyed) ==
    /\ Ready(c)
    /\ sessions' = [sessions EXCEPT ![c] = IF destroyed THEN EmptySession ELSE @]
    /\ http' = [http EXCEPT ![c] =
            Answered([Arrives(c, "/logout", Undefined) EXCEPT
                          !.logout = IF destroyed THEN "destroyed" ELSE "error"],
                     Redirect("/login"), TRUE)]
    /\ UNCHANGED <<users, assessments, mmVars, req, pre, val, upVars>>

\* the accounts the runs start from: the default ones, a patient and a
\* doctor who signed up (POST /signup sets no doctorId)
SignedUp(us, username, password, role) ==
    us \cup {NewUser(us, username, bcryptHash(password), role, Undefined)}

InitAuth ==
    /\ sessionONNX = 0
    /\ modelLoadAttempts = 0
    /\ isLoading = FALSE
    /\ createPending = FALSE
    /\ timers = 0
    /\ initCalls = 0
    /\ retryCalls = 0
    /\ modelOutputs = [i \in {ColourImage} |-> Num(0)]
    /\ req = [r \in Reqs |-> IdleReq]
    /\ pre = PreIdle
    /\ val = ValIdle
    /\ upload = [pc |-> "idle"]
    /\ patientResults = <<>>
    /\ users = SignedUp(SignedUp(DefaultUsers, "alice", "alice123", "user"),
                        "eve", "alice123", "doctor")
    /\ sessions = [c \in Clients |-> EmptySession]
    /\ http = [c \in Clients |-> IdleHttp]
    /\ assessments = {[doctorId |-> "1", patientUsername |-> "alice"],
                      [doctorId |-> "2", patientUsername |-> "alice"]}

NextAuth ==
    \/ \E c \in Clients, route \in AuthRoutes \cup {"/admin", "/api/admin/users"} :
            \E arg \in RouteArgs(route) : Get(c, route, arg)
    \/ \E c \in Clients : \E arg \in RouteArgs("/api/admin/users/:username/toggle-status") :
            ToggleStatus(c, arg)
    \/ \E c \in Clients : ToggleStatusSettles(c)
    \/ \E c \in Clients, body \in LoginBodies : Login(c, body.username, body.password)
    \/ \E c \in Clients, found \in BOOLEAN : LoginLookupSettles(c, found)
    \/ \E c \in Clients, compared \in BOOLEAN : LoginCompareSettles(c, compared)
    \/ \E c \in Clients, destroyed \in BOOLEAN : Logout(c, destroyed)

SpecAuth == InitAuth /\ [][NextAuth]_vars

----------------------------------------------------------------------------
(* The creation of accounts and the passwords (src/server.js, and the *)
(* earlier routes of src/signup-routes.js and src/unnamed/part_003)   *)

\* a unique index that lets every insert through
uniqueIndexAllowsAny(us, username) == TRUE

\* username: { unique: true }: the index rejects an insert (E11000) when a
\* document has the username already
uniqueIndexAllows(us, username) == \A u \in us : u.username # username

\* the document as the collection holds it after save()
Inserted(us, doc) == us \cup {[doc EXCEPT !.id = Cardinality(us) + 1]}

\* the answers of the two account-creating routes of src/server.js
AlreadyExists(route) ==
    IF route = "/signup" THEN Redirect("/signup?error=User already exists")
    ELSE JsonError(409, "Username already exists")
SaveFailed(route) ==
    IF route = "/signup" THEN Redirect("/signup?error=Signup failed")
    ELSE JsonError(500, "Failed to create user account")
Created(route) ==
    IF route = "/signup" THEN Redirect("/login?prefill=true")
    ELSE [status |-> 201, message |-> "User account created successfully"]

\* what the forms send: a free and a taken username, a long and a short
\* password
SignupBodies ==
    {[username |-> "bob", password |-> "secret12", role |-> "user"],
     [username |-> "bob", password |-> "abc", role |-> "admin"],
     [username |-> "admin", password |-> "secret12", role |-> "user"]}
LegacyLoginBodies ==
    {[username |-> "admin", password |-> "admin123"],
     [username |-> "bob", password |-> "secret12"],
     [username |-> "bob", password |-> "abc"]}
TempPasswords == {"k3x9q2ab"}

\* a POST with a form: the body is kept in username, password and arg (role)
Posted(c, route, body) ==
    [Arrives(c, route, Str(body.role)) EXCEPT !.username = body.username,
                                              !.password = body.password]

\* POST /signup of src/server.js up to await User.findOne
Signup(c, body) ==
    /\ upload.impl = "server"
    /\ Ready(c)
    /\ http' = [http EXCEPT ![c] =
            [Posted(c, "/signup", body) EXCEPT !.pc = "findOne", !.handled = TRUE]]
    /\ UNCHANGED <<users, sessions, assessments, mmVars, req, pre, val, upVars>>

\* POST /api/users: requireAdmin, the validation of the body, up to await
\* User.findOne
ApiUsers(c, body) ==
    /\ upload.impl = "server"
    /\ Ready(c)
    /\ LET denied == requireAdmin(sessions[c])
           r == Posted(c, "/api/users", body)
       IN  http' = [http EXCEPT ![c] =
               IF denied # NoResponse THEN Answered(r, denied, FALSE)
               ELSE IF Len(body.password) < 6
               THEN Answered(r, JsonError(400, "Password must be at least 6 characters long"), TRUE)
               ELSE IF Len(body.username) < 3
               THEN Answered(r, JsonError(400, "Username must be at least 3 characters long"), TRUE)
               ELSE [r EXCEPT !.pc = "findOne", !.handled = TRUE]]
    /\ UNCHANGED <<users, sessions, assessments, mmVars, req, pre, val, upVars>>

\* findOne settles in either route: the username is taken, or the password
\* is hashed and the new document is handed to save()
CreateLookupSettles(c) ==
    /\ http[c].pc = "findOne"
    /\ http[c].route \in {"/signup", "/api/users"}
    /\ LET r == http[c]
           role == r.arg.v
           doc == NewUser(users, r.username, bcryptHash(r.password), role,
                          IF r.route = "/signup" THEN Undefined ELSE Null)
       IN  http' = [http EXCEPT ![c] =
               IF findOne(users, r.username) # NoUser
               THEN Answered(r, AlreadyExists(r.route), TRUE)
               ELSE [r EXCEPT !.pc = "save", !.user = doc]]
    /\ UNCHANGED <<users, sessions, assessments, mmVars, req, pre, val, upVars>>

\* save() settles: the document is in the collection, or the unique index
\* rejected it and the catch block answers
CreateSaveSettles(c) ==
    /\ http[c].pc = "save"
    /\ http[c].route \in {"/signup", "/api/users"}
    /\ LET r == http[c]
       IN  IF uniqueIndexAllows(users, r.user.username)
           THEN /\ users' = Inserted(users, r.user)
                /\ http' = [http EXCEPT ![c] = Answered(r, Created(r.route), TRUE)]
           ELSE /\ users' = users
                /\ http' = [http EXCEPT ![c] = Answered(r, SaveFailed(r.route), TRUE)]
    /\ UNCHANGED <<sessions, assessments, mmVars, req, pre, val, upVars>>

\* POST /api/admin/users/:username/reset-password up to await User.findOne
ResetPassword(c, username) ==
    /\ upload.impl = "server"
    /\ Ready(c)
    /\ LET route == "/api/admin/users/:username/reset-password"
           denied == requireAdmin(sessions[c])
           r == [Arrives(c, route, Str(username)) EXCEPT !.username = username]
       IN  http' = [http EXCEPT ![c] =
               IF denied # NoResponse THEN Answered(r, denied, FALSE)
               ELSE [r EXCEPT !.pc = "findOne", !.handled = TRUE]]
    /\ UNCHANGED <<users, sessions, assessments, mmVars, req, pre, val, upVars>>

\* findOne settles: 404, or the hash of a generated password is saved and
\* the password is sent back
ResetPasswordSettles(c, tempPassword) ==
    /\ http[c].pc = "findOne"
    /\ http[c].route = "/api/admin/users/:username/reset-password"
    /\ LET r == http[c]
           user == findOne(users, r.username)
       IN  IF user = NoUser
           THEN /\ users' = users
                /\ http' = [http EXCEPT ![c] = Answered(r, JsonError(404, "User not found"), TRUE)]
           ELSE /\ users' = (users \ {user}) \cup
                               {[user EXCEPT !.password = bcryptHash(tempPassword)]}
                /\ http' = [http EXCEPT ![c] =
                        Answered(r, [status |-> 200, tempPassword |-> tempPassword], TRUE)]
    /\ UNCHANGED <<sessions, assessments, mmVars, req, pre, val, upVars>>

\* the earlier login route keeps the administrator in its source
hardcodedUsers == [admin |-> [password |-> "admin123", role |-> "admin"]]

\* POST /signup of src/signup-routes.js: the validation of the body, up to
\* await getUserByUsername (the username is the part of the email before @)
LegacySignup(c, body) ==
    /\ upload.impl = "legacy"
    /\ Ready(c)
    /\ LET r == Posted(c, "/signup", body)
       IN  http' = [http EXCEPT ![c] =
               IF Len(body.password) < 8 \/ body.role \notin {"user", "doctor"}
               THEN Answered(r, JsonError(400, "errors"), TRUE)
               ELSE [r EXCEPT !.pc = "getUserByUsername", !.handled = TRUE]]
    /\ UNCHANGED <<users, sessions, assessments, mmVars, req, pre, val, upVars>>

\* getUserByUsername settles: the username is taken, or userData, with the
\* password as it was sent, goes to createUser
LegacySignupLookupSettles(c) ==
    /\ http[c].pc = "getUserByUsername"
    /\ http[c].route = "/signup"
    /\ LET r == http[c]
           userData == NewUser(users, r.username, Str(r.password), r.arg.v, Undefined)
       IN  http' = [http EXCEPT ![c] =
               IF findOne(users, r.username) # NoUser
               THEN Answered(r, JsonError(400, "Username already exists"), TRUE)
               ELSE [r EXCEPT !.pc = "createUser", !.user = userData]]
    /\ UNCHANGED <<users, sessions, assessments, mmVars, req, pre, val, upVars>>

\* createUser settles. The database module is not among the sources: it
\* either stores the password it is given or a hash of it (hashes), and it
\* throws 'Username already exists' for a taken username, as the catch
\* block of the route expects.
LegacyCreateSettles(c, hashes) ==
    /\ http[c].pc = "createUser"
    /\ LET r == http[c]
           row == IF hashes THEN [r.user EXCEPT !.password = bcryptHash(r.password)]
                  ELSE r.user
       IN  IF \A u \in users : u.username # r.username
           THEN /\ users' = Inserted(users, row)
                /\ http' = [http EXCEPT ![c] =
                        Answered(r, [status |-> 200, message |-> "Account created successfully! Please sign in."], TRUE)]
           ELSE /\ users' = users
                /\ http' = [http EXCEPT ![c] =
                        Answered(r, JsonError(400, "Username already exists"), TRUE)]
    /\ UNCHANGED <<sessions, assessments, mmVars, req, pre, val, upVars>>

\* the session the earlier login route sets
LegacySession(username, role) ==
    [loggedIn |-> TRUE, username |-> username, role |-> role,
     doctorId |-> IF role = "doctor" THEN Str("1") ELSE Undefined]

\* POST /login of src/unnamed/part_003: a hard-coded user is checked at
\* once with !==, any other username goes to await getUserByUsername
LegacyLogin(c, body) ==
    /\ upload.impl = "legacy"
    /\ Ready(c)
    /\ LET r == [Arrives(c, "/login", Undefined) EXCEPT !.username = body.username,
                                                        !.password = body.password,
                                                        !.handled = TRUE]
       IN  IF body.username \in DOMAIN hardcodedUsers
           THEN LET user == hardcodedUsers[body.username]
                IN  IF user.password # body.password
                    THEN /\ http' = [http EXCEPT ![c] =
                                Answered(r, Redirect("/login?error=Invalid username or password"), TRUE)]
                         /\ sessions' = sessions
                    ELSE /\ http' = [http EXCEPT ![c] = Answered(r, Redirect("/dashboard"), TRUE)]
                         /\ sessions' = [sessions EXCEPT ![c] =
                                            LegacySession(body.username, user.role)]
           ELSE /\ http' = [http EXCEPT ![c] = [r EXCEPT !.pc = "getUserByUsername"]]
                /\ sessions' = sessions
    /\ UNCHANGED <<users, assessments, mmVars, req, pre, val, upVars>>

\* getUserByUsername settles: the row is accepted when its password === the
\* password sent
LegacyLoginSettles(c) ==
    /\ http[c].pc = "getUserByUsername"
    /\ http[c].route = "/login"
    /\ LET r == http[c]
           dbUser == findOne(users, r.username)
       IN  IF dbUser # NoUser /\ dbUser.password = Str(r.password)
           THEN /\ http' = [http EXCEPT ![c] =
                       Answered([r EXCEPT !.user = dbUser], Redirect("/dashboard"), TRUE)]
                /\ sessions' = [sessions EXCEPT ![c] = LegacySession(r.username, dbUser.role)]
           ELSE /\ http' = [http EXCEPT ![c] =
                       Answered(r, Redirect("/login?error=Invalid username or password"), TRUE)]
                /\ sessions' = sessions
    /\ UNCHANGED <<users, assessments, mmVars, req, pre, val, upVars>>

InitUsers ==
    /\ sessionONNX = 0
    /\ modelLoadAttempts = 0
    /\ isLoading = FALSE
    /\ createPending = FALSE
    /\ timers = 0
    /\ initCalls = 0
    /\ retryCalls = 0
    /\ modelOutputs = [i \in {ColourImage} |-> Num(0)]
    /\ req = [r \in Reqs |-> IdleReq]
    /\ pre = PreIdle
    /\ val = ValIdle
    /\ patientResults = <<>>
    /\ assessments = {}
    /\ http = [c \in Clients |-> IdleHttp]
    /\ \E impl \in {"server", "legacy"} :
          /\ upload = [pc |-> "idle", impl |-> impl]
          /\ users = IF impl = "server" THEN DefaultUsers ELSE {}
          /\ sessions \in [Clients -> IF impl = "server"
                                      THEN {EmptySession, SessionOf(findOne(DefaultUsers, "admin"))}
                                      ELSE {EmptySession}]

NextUsers ==
    \/ \E c \in Clients, body \in SignupBodies : Signup(c, body)
    \/ \E c \in Clients, body \in SignupBodies : ApiUsers(c, body)
    \/ \E c \in Clients : CreateLookupSettles(c)
    \/ \E c \in Clients : CreateSaveSettles(c)
    \/ \E c \in Clients, body \in SignupBodies :
            upload.impl = "server" /\ Login(c, body.username, body.password)
    \/ \E c \in Clients, found \in BOOLEAN : LoginLookupSettles(c, found)
    \/ \E c \in Clients, compared \in BOOLEAN : LoginCompareSettles(c, compared)
    \/ \E c \in Clients, username \in {"admin", "bob"} : ResetPassword(c, username)
    \/ \E c \in Clients, tempPassword \in TempPasswords : ResetPasswordSettles(c, tempPassword)
    \/ \E c \in Clients, body \in SignupBodies : LegacySignup(c, body)
    \/ \E c \in Clients : LegacySignupLookupSettles(c)
    \/ \E c \in Clients, hashes \in BOOLEAN : LegacyCreateSettles(c, hashes)
    \/ \E c \in Clients, body \in LegacyLoginBodies : LegacyLogin(c, body)
    \/ \E c \in Clients : LegacyLoginSettles(c)

SpecUsers == InitUsers /\ [][NextUsers]_vars

----------------------------------------------------------------------------
(* The admin API on the users and the routes that return assessments *)
(* (src/server.js)                                                    *)

\* the bodies of PUT /api/admin/users/:username: the fields to set
UpdateBodies == {[role |-> "user"], [role |-> "admin"], [is_active |-> FALSE]}

\* findOneAndUpdate({ username }, updateData): the fields of updateData
\* replace those of the document
Updated(user, updateData) ==
    [f \in DOMAIN user |-> IF f \in DOMAIN updateData THEN updateData[f] ELSE user[f]]

\* a request of the admin API on the account username, up to its first
\* await: requireAdmin, then the handler
AdminApi(c, route, username, body) ==
    /\ Ready(c)
    /\ LET denied == guard(route, sessions[c])
           r == [Arrives(c, route, [kind |-> "object", v |-> body]) EXCEPT
                     !.username = username]
       IN  http' = [http EXCEPT ![c] =
               IF denied # NoResponse THEN Answered(r, denied, FALSE)
               ELSE [r EXCEPT !.pc = "await", !.handled = TRUE]]
    /\ UNCHANGED <<users, sessions, assessments, mmVars, req, pre, val, upVars>>

\* PUT /api/admin/users/:username
UpdateUser(c, username, updateData) ==
    AdminApi(c, "/api/admin/users/:username", username, updateData)

\* findOneAndUpdate settles: 404, or the document with the fields set
UpdateUserSettles(c) ==
    /\ http[c].pc = "await"
    /\ http[c].route = "/api/admin/users/:username"
    /\ LET r == http[c]
           user == findOne(users, r.username)
       IN  IF user = NoUser
           THEN /\ users' = users
                /\ http' = [http EXCEPT ![c] = Answered(r, JsonError(404, "User not found"), TRUE)]
           ELSE /\ users' = (users \ {user}) \cup {Updated(user, r.arg.v)}
                /\ http' = [http EXCEPT ![c] = Answered(r, Served("success", {}), TRUE)]
    /\ UNCHANGED <<sessions, assessments, mmVars, req, pre, val, upVars>>

\* DELETE /api/admin/users/:username
DeleteUser(c, username) ==
    AdminApi(c, "DELETE /api/admin/users/:username", username, [none |-> TRUE])

\* findOne settles: 404, 403 for an admin, else on to findOneAndDelete
DeleteLookupSettles(c) ==
    /\ http[c].pc = "await"
    /\ http[c].route = "DELETE /api/admin/users/:username"
    /\ LET r == http[c]
           user == findOne(users, r.username)
       IN  http' = [http EXCEPT ![c] =
               IF user = NoUser THEN Answered(r, JsonError(404, "User not found"), TRUE)
               ELSE IF user.role = "admin"
               THEN Answered(r, JsonError(403, "Cannot delete admin users"), TRUE)
               ELSE [r EXCEPT !.pc = "findOneAndDelete", !.user = user]]
    /\ UNCHANGED <<users, sessions, assessments, mmVars, req, pre, val, upVars>>

\* findOneAndDelete({ username }) settles: the document of that name, as it
\* is by now, is removed
DeleteUserSettles(c) ==
    /\ http[c].pc = "findOneAndDelete"
    /\ users' = users \ {u \in users : u.username = http[c].username}
    /\ http' = [http EXCEPT ![c] = Answered(http[c], Served("success", {}), TRUE)]
    /\ UNCHANGED <<sessions, assessments, mmVars, req, pre, val, upVars>>

\* the routes that return assessments, with the ids asked for
AssessmentRoutes ==
    {"/api/getDoctorAssessments", "/api/test-doctor-data/:doctorId",
     "/api/admin/doctor-assessments", "/doctor/:id"}
AssessmentArgs(route) ==
    IF route = "/api/admin/doctor-assessments" THEN {Undefined}
    ELSE {Str("1"), Str("2")}

\* the sessions of the clients: the accounts they logged in with
StartUsers ==
    SignedUp(SignedUp(DefaultUsers, "alice", "alice123", "user"), "eve", "alice123", "doctor")
AdminSessions ==
    {SessionOf(findOne(StartUsers, n)) : n \in {"admin", "doctor1", "alice"}}

InitAdmin ==
    /\ sessionONNX = 0
    /\ modelLoadAttempts = 0
    /\ isLoading = FALSE
    /\ createPending = FALSE
    /\ timers = 0
    /\ initCalls = 0
    /\ retryCalls = 0
    /\ modelOutputs = [i \in {ColourImage} |-> Num(0)]
    /\ req = [r \in Reqs |-> IdleReq]
    /\ pre = PreIdle
    /\ val = ValIdle
    /\ upload = [pc |-> "idle"]
    /\ patientResults = <<>>
    /\ users = StartUsers
    /\ sessions \in [Clients -> AdminSessions]
    /\ http = [c \in Clients |-> IdleHttp]
    /\ assessments = {[doctorId |-> "1", patientUsername |-> "alice"],
                      [doctorId |-> "2", patientUsername |-> "alice"]}

NextAdmin ==
    \/ \E c \in Clients, route \in AssessmentRoutes :
            \E arg \in AssessmentArgs(route) : Get(c, route, arg)
    \/ \E c \in Clients, username \in {"admin", "alice"}, updateData \in UpdateBodies :
            UpdateUser(c, username, updateData)
    \/ \E c \in Clients : UpdateUserSettles(c)
    \/ \E c \in Clients, username \in {"admin", "alice"} : DeleteUser(c, username)
    \/ \E c \in Clients : DeleteLookupSettles(c)
    \/ \E c \in Clients : DeleteUserSettles(c)
    \/ \E c \in Clients, arg \in {Str("admin"), Str("alice")} : ToggleStatus(c, arg)
    \/ \E c \in Clients : ToggleStatusSettles(c)

SpecAdmin == InitAdmin /\ [][NextAdmin]_vars

----------------------------------------------------------------------------
(* Properties of predict and of the loading of the model *)

\* the raw output scalar the model computes for the image of call r
RawOf(r) == modelOutputs[req[r].img]

\* C1: a predict call that ran the model and got its output labels the result
\* 'Non-anemic' exactly when the raw output is greater than 0.5 and 'Anemic'
\* otherwise (also for 0.5 itself and for NaN).
C1_DecisionBoundary ==
    \A r \in Reqs :
        req[r].end = "decided" =>
            /\ req[r].result.prediction \in {"Anemic", "Non-anemic"}
            /\ req[r].result.prediction = "Non-anemic"
                   <=> (IsNum(RawOf(r)) /\ RawOf(r).v > 50000)

\* a call decided on a raw output of exactly 0.5, labelled Anemic
C1_Witness ==
    \E r \in Reqs :
        /\ req[r].end = "decided"
        /\ RawOf(r) = Num(50000)
        /\ req[r].result.prediction = "Anemic"

\* C2: the confidence of every real result is the raw output itself, in
\* both branches, and the result is flagged usingDefaultPrediction false.
C2_ConfidenceIsRaw ==
    \A r \in Reqs :
        req[r].end = "decided" =>
            /\ req[r].result.confidence = RawOf(r)
            /\ req[r].result.debug.rawOutput = RawOf(r)
            /\ req[r].result.usingDefaultPrediction = FALSE

\* an Anemic result whose confidence is the raw 0.49999, not 0.50001
C2_Witness ==
    \E r \in Reqs :
        /\ req[r].end = "decided"
        /\ RawOf(r) = Num(49999)
        /\ req[r].result.prediction = "Anemic"
        /\ req[r].result.confidence = Num(49999)

\* C3: a predict call made while sessionONNX is null returns at once exactly
\* {prediction 'Anemic', confidence 0.8, usingDefaultPrediction true},
\* whatever the image, and calls neither preprocessImage nor session.run.
C3_MissingModelDefault ==
    [][\A r \in Reqs :
          (sessionONNX = 0 /\ req[r].pc = "idle" /\ req'[r].pc # "idle") =>
              /\ req'[r].pc = "done"
              /\ req'[r].outcome = "returned"
              /\ req'[r].result = [prediction |-> "Anemic",
                                   confidence |-> Num(80000),
                                   usingDefaultPrediction |-> TRUE]
              /\ req'[r].preprocessed = 0
              /\ req'[r].runs = 0]_vars

\* two calls without a model, on a colour image and on an unreadable one,
\* both answered with the default
C3_Witness ==
    /\ sessionONNX = 0
    /\ \E r1, r2 \in Reqs :
          /\ req[r1].end = "noModel" /\ req[r1].img = ColourImage
          /\ req[r2].end = "noModel" /\ req[r2].img = BrokenImage
          /\ req[r1].result = req[r2].result
          /\ req[r1].result.usingDefaultPrediction

\* C4: predict never throws to its caller; a fault of session.run is caught
\* and answered with the cautious default carrying the error's message.
C4_RunFaultAbsorbed ==
    \A r \in Reqs :
        /\ req[r].outcome # "threw"
        /\ req[r].pc = "done" => req[r].outcome = "returned"
        /\ req[r].end = "runError" =>
               req[r].result = [prediction |-> "Anemic",
                                confidence |-> Num(80000),
                                usingDefaultPrediction |-> TRUE,
                                error |-> "inference failed"]

\* a call whose session.run faulted and that returned
C4_Witness ==
    \E r \in Reqs :
        /\ req[r].end = "runError"
        /\ req[r].runs = 1
        /\ req[r].outcome = "returned"

\* C5 as stated: a failure of preprocessing or of the validation of the
\* tensor reaches the caller of predict as a thrown error.
C5_FailurePropagated ==
    \A r \in Reqs :
        req[r].end \in {"preprocessError", "validateError"} =>
            req[r].outcome = "threw"

\* C5, amended: preprocessImage and validateModelInput throw to predict, and
\* predict's catch block absorbs the error: the call returns the default
\* 'Anemic' / 0.8 with usingDefaultPrediction true and the error's message.
C5_FailureAbsorbed ==
    \A r \in Reqs :
        req[r].end \in {"preprocessError", "validateError"} =>
            /\ req[r].outcome = "returned"
            /\ req[r].runs = 0
            /\ req[r].result.prediction = "Anemic"
            /\ req[r].result.confidence = Num(80000)
            /\ req[r].result.usingDefaultPrediction = TRUE
            /\ req[r].end = "preprocessError" =>
                   /\ preprocessImage(req[r].img).threw
                   /\ req[r].result.error = preprocessImage(req[r].img).error

\* calls on an unreadable image and on one decoded to a buffer of the wrong
\* size, with a model loaded, both answered with the default
C5_Witness ==
    \E r1, r2 \in Reqs :
        /\ req[r1].end = "preprocessError" /\ req[r1].img = BrokenImage
        /\ req[r2].end = "preprocessError" /\ req[r2].img = GreyscaleImage
        /\ req[r1].preprocessed = 1
        /\ req[r2].result.error = "Image preprocessing failed: Buffer size mismatch"

\* C6: the load body runs at most maxLoadAttempts times.
C6_AttemptsBounded == modelLoadAttempts <= maxLoadAttempts

\* a result without the time measured around session.run
Timeless(result) ==
    IF "debug" \in DOMAIN result
    THEN [prediction |-> result.prediction, confidence |-> result.confidence,
          usingDefaultPrediction |-> result.usingDefaultPrediction,
          rawOutput |-> result.debug.rawOutput]
    ELSE result

\* C12, as claimed: two predict calls on the same image bytes that both ran
\* the loaded model return identical objects, every field equal.
C12_IdenticalResults ==
    \A r1, r2 \in Reqs :
        (/\ req[r1].pc = "done" /\ req[r2].pc = "done"
         /\ req[r1].img = req[r2].img
         /\ req[r1].end = "decided" /\ req[r2].end = "decided")
            => req[r1].result = req[r2].result

\* C12, amended: two predict calls on the same image bytes that end the same
\* way (both decided by the model, or both stopped by the same failure)
\* return results equal in every field but debug.inferenceTime.
C12_EqualButForTime ==
    \A r1, r2 \in Reqs :
        (/\ req[r1].pc = "done" /\ req[r2].pc = "done"
         /\ req[r1].img = req[r2].img
         /\ req[r1].end = req[r2].end)
            => Timeless(req[r1].result) = Timeless(req[r2].result)

\* two calls on the same image were both decided by the model and their
\* results differ in the measured time only
C12_Witness ==
    \E r1, r2 \in Reqs :
        /\ req[r1].pc = "done" /\ req[r2].pc = "done"
        /\ req[r1].img = req[r2].img
        /\ req[r1].end = "decided" /\ req[r2].end = "decided"
        /\ req[r1].result.debug.inferenceTime # req[r2].result.debug.inferenceTime
        /\ Timeless(req[r1].result) = Timeless(req[r2].result)

WellFormed(result) ==
    /\ result.prediction \in {"Anemic", "Non-anemic"}
    /\ result.usingDefaultPrediction \in BOOLEAN
    /\ IsNum(result.confidence)
    /\ result.confidence.v >= 0
    /\ result.confidence.v <= 100000

\* C13: every result predict returns, in every terminal outcome and for every
\* model output, has prediction 'Anemic' or 'Non-anemic', a boolean
\* usingDefaultPrediction and a numeric confidence within [0, 1].
C13_ResultWellFormed ==
    \A r \in Reqs :
        (req[r].pc = "done" /\ req[r].outcome = "returned") => WellFormed(req[r].result)

\* C13 for the models whose output scalar lies in [0, 1]: the claim, restricted
C13_UnitOutputs ==
    (\E img \in DOMAIN modelOutputs :
        ~(/\ IsNum(modelOutputs[img])
          /\ modelOutputs[img].v >= 0
          /\ modelOutputs[img].v <= 100000))
        \/ C13_ResultWellFormed

----------------------------------------------------------------------------
(* Properties of preprocessImage *)

\* C7: ModelManager's preprocessImage reaches its loop and returns a tensor
\* only for a buffer of exactly 224*224*3 = 150528 bytes, and the tensor's
\* data then have 150528 entries; for a buffer of any other length it
\* throws before a single batch is normalised and before the data are
\* allocated.
C7_TensorOnlyFromFullBuffer ==
    pre.impl = "ModelManager" =>
        /\ pre.pc \in {"loop", "done"} =>
               /\ pre.img.ok = "full"
               /\ pre.img.len = 150528
               /\ pre.dataLen = 150528
        /\ pre.pc = "done" => pre.batch * 1000 >= 50176
        /\ (pre.img.len # 150528 /\ pre.pc \notin {"start", "buffer"}) =>
               /\ pre.pc = "failed"
               /\ pre.batch = 0
               /\ pre.dataLen = 0

\* the tensor of a 150528-byte buffer, returned
C7_Witness ==
    /\ pre.impl = "ModelManager"
    /\ pre.pc = "done"
    /\ pre.img.len = 150528
    /\ pre.dataLen = 150528

\* C8: in the tensor returned for a 150528-byte buffer, the value derived
\* from buffer[3*i + c] is at index c*50176 + i for every pixel i and
\* channel c; the batched loop stores to every index of 0..150527 exactly
\* once; and the legacy preprocessImage yields the same data.
C8_ChannelFirstLayout ==
    (pre.pc = "done" /\ pre.img.len = 150528) =>
        /\ \A c \in 0..2 : \A i \in 0..50175 :
               PreData(c * 50176 + i) = Normalize(Byte(pre.img, 3 * i + c), c)
        /\ pre.impl = "ModelManager" =>
               \A j \in 0..150527 : writeCount(pre.batch, j) = 1
        /\ \A j \in 0..150527 :
               float32Data(pre.img, NumBatches, j) = legacyFloat32Data(pre.img, j)

\* the tensor of a solid red image: red entries from the byte 255, green
\* and blue entries from the byte 0
C8_Witness ==
    /\ pre.pc = "done"
    /\ pre.impl = "ModelManager"
    /\ pre.img.pat = "red"
    /\ PreData(0) = 1074785821
    /\ PreData(50175) = 1074785821
    /\ PreData(50176) = -1073891621
    /\ PreData(100352) = -1072101385
    /\ PreData(150527) = -1072101385

\* the binary32 of (v / 255.0 - mean) / std with the constants of the claim
C9_Value(v, c) ==
    Fround(1000 * v - 255 * <<485, 456, 406>>[c + 1], 255 * <<229, 224, 225>>[c + 1])

RECURSIVE C9_Row(_, _, _)
C9_Row(c, lo, hi) ==
    IF lo = hi THEN <<C9_Value(lo, c)>>
    ELSE C9_Row(c, lo, (lo + hi) \div 2) \o C9_Row(c, (lo + hi) \div 2 + 1, hi)

C9_Table == <<C9_Row(0, 0, 255), C9_Row(1, 0, 255), C9_Row(2, 0, 255)>>

\* C9: every one of the 150528 entries of a returned tensor is the 32-bit
\* float of (raw / 255.0 - mean[c]) / std[c], raw being the byte of its
\* pixel and channel, mean = [0.485, 0.456, 0.406], std = [0.229, 0.224,
\* 0.225]; in both implementations.
C9_Normalisation ==
    (pre.pc = "done" /\ pre.img.len = 150528) =>
        \A c \in 0..2 : \A i \in 0..50175 :
            PreData(c * 50176 + i) = C9_Table[c + 1][Byte(pre.img, 3 * i + c).v + 1]

\* the tensor of a uniform gray image (128, 128, 128): the three values
\* 0.0740..., 0.2052..., 0.4265... of the channels
C9_Witness ==
    /\ pre.pc = "done"
    /\ pre.impl = "ModelManager"
    /\ pre.img.pat = "gray"
    /\ PreData(0) = 1033350953
    /\ PreData(50176) = 1045568320
    /\ PreData(150527) = 1054498101

----------------------------------------------------------------------------
(* Properties of validateImageFile *)

\* the extension the claim asks of a file name, written out for the names
\* of the model
C10_NameAllowed(n) ==
    n \in {<<"t", "e", "s", "t", ".", "j", "p", "g">>,
           <<"I", "M", "G", ".", "J", "P", "G">>,
           <<"e", "y", "e", ".", "j", "p", "e", "g">>,
           <<"e", "y", "e", ".", "P", "n", "g">>,
           <<"a", ".", "g", "i", "f">>,
           <<"a", ".", "w", "e", "b", "p">>}

\* C10: validateImageFile returns no error exactly when the file has between
\* 1024 and 10*1024*1024 bytes inclusive, an allowed MIME type and an allowed
\* extension; each constraint violated adds its error; a missing file
\* yields only 'No file provided'.
C10_ValidExactly ==
    val.pc = "returned" =>
        IF ~val.file.provided
        THEN val.errors = <<"No file provided">>
        ELSE LET sizeOk == val.file.bytes >= 1024 /\ val.file.bytes <= 10485760
                 typeOk == val.file.mimetype \in
                               {"image/jpeg", "image/jpg", "image/png",
                                "image/gif", "image/webp"}
                 nameOk == C10_NameAllowed(val.file.originalname)
             IN  /\ val.errors = <<>> <=> (sizeOk /\ typeOk /\ nameOk)
                 /\ Len(val.errors) = (IF sizeOk THEN 0 ELSE 1)
                                      + (IF typeOk THEN 0 ELSE 1)
                                      + (IF nameOk THEN 0 ELSE 1)

\* C10 for the file objects that carry their size: the claim, restricted
C10_SizedFiles ==
    (val.pc = "returned" /\ val.file.provided /\ ~IsNum(val.file.size))
        \/ C10_ValidExactly

----------------------------------------------------------------------------
(* Properties of POST /predict *)

Oversized(file) == file.provided /\ file.bytes > 10 * 1024 * 1024
DisallowedMime(file) ==
    file.provided /\ file.mimetype \notin {"image/jpeg", "image/jpg", "image/png",
                                          "image/gif", "image/webp"}

\* C11: for an upload of more than 10 MB or of a disallowed MIME type the
\* route handler never runs: modelManager.predict is not invoked (no call of
\* preprocessImage or session.run), no tensor is made, no patient result is
\* persisted, and the request ends in an error with no file left on disk.
C11_RejectedBeforePreprocessing ==
    (Oversized(upload.file) \/ DisallowedMime(upload.file)) =>
        /\ ~upload.handled
        /\ req[uploadCall] = IdleReq
        /\ upload.tensors = 0
        /\ patientResults = <<>>
        /\ upload.pc = "done" => (upload.response.status # 200 /\ ~upload.onDisk)

\* an oversized upload of an allowed type and name passed fileFilter, was
\* written, and was rejected at the size limit
C11_Witness ==
    /\ upload.pc = "done"
    /\ upload.impl = "server"
    /\ Oversized(upload.file)
    /\ ~DisallowedMime(upload.file)
    /\ upload.response = JsonError(500, "LIMIT_FILE_SIZE")
    /\ ~upload.handled

\* C14: once POST /predict has finished handling an accepted upload, on the
\* success path and on every failure path, the uploaded file no longer
\* exists in the uploads directory.
C14_UploadRemoved ==
    (upload.pc = "done" /\ upload.handled /\ upload.file.provided) => ~upload.onDisk

\* C14 for the answers 200 of src/server.js: the claim, restricted
C14_RemovedOnSuccess ==
    (upload.pc = "done" /\ upload.impl = "server" /\ upload.response.status = 200)
        => ~upload.onDisk


----------------------------------------------------------------------------
(* Properties of the sessions and of the accounts *)

\* a request of client c arrives in this step
Arrived(c) == Ready(c) /\ http'[c] # http[c]

C16_LoggedOutRedirected ==
    [][\A c \in Clients :
          (/\ Arrived(c)
           /\ http[c].logout # "none"
           /\ http'[c].route \in AuthRoutes \cup AdminRoutes)
          => http'[c].response = Redirect("/login")]_vars

\* the same when the store did destroy the session
C16_DestroyedRedirected ==
    [][\A c \in Clients :
          (/\ Arrived(c)
           /\ http[c].logout = "destroyed"
           /\ http'[c].route \in AuthRoutes \cup AdminRoutes)
          => http'[c].response = Redirect("/login")]_vars


\* C17: for a logged-in session, the admin dashboard and the /api/admin
\* routes run their handler only when the session's role is 'admin', and
\* GET /doctor/:id and GET /api/getDoctorAssessments are served only
\* when the session's role is 'doctor' and its doctorId is the requested
\* id; every other logged-in session gets 403.
C17_RoleScoped ==
    [][\A c \in Clients :
          (Arrived(c) /\ sessions[c].loggedIn)
          => LET session == sessions[c]
                 r == http'[c]
             IN  /\ r.route \in AdminRoutes
                    => IF session.role = "admin"
                       THEN r.handled
                       ELSE r.response = [status |-> 403] /\ ~r.handled
                 /\ r.route \in {"/doctor/:id", "/api/getDoctorAssessments"}
                    => IF session.role = "doctor" /\ session.doctorId = r.arg
                       THEN r.response =
                              Served(r.response.view,
                                     {a \in assessments : Str(a.doctorId) = r.arg})
                       ELSE r.response = [status |-> 403]]_vars

\* a patient was refused /admin while a doctor was served their own page
C17_Witness ==
    \E c, d \in Clients :
        /\ http[c].pc = "done" /\ http[c].route = "/admin"
        /\ http[c].before.role = "user"
        /\ http[c].response = [status |-> 403]
        /\ http[d].pc = "done" /\ http[d].route = "/doctor/:id"
        /\ http[d].before.role = "doctor" /\ http[d].before.doctorId = http[d].arg
        /\ http[d].response.status = 200


LoginErrors ==
    {Redirect("/login?error=Invalid username or password"),
     Redirect("/login?error=Account is inactive"),
     Redirect("/login?error=Login failed")}

\* C18: POST /login goes on to the password only with a user found under
\* the username sent and active; it answers with the redirect to
\* /dashboard only when the password sent hashes to that user's stored
\* password, and then the session is loggedIn with that user's username,
\* role and doctorId; every other answer is a redirect to /login with an
\* error and leaves the session as it was.
C18_LoginSetsSession ==
    [][\A c \in Clients :
          (/\ http[c].route = "/login"
           /\ http[c].pc \in {"findOne", "compare"}
           /\ http'[c] # http[c])
          => LET r == http'[c]
                 user == r.user
             IN  /\ http'[c].pc = "compare"
                    => /\ user \in users
                       /\ user.username = r.username
                       /\ user.is_active
                 /\ (r.pc = "done" /\ r.response = Redirect("/dashboard"))
                    => /\ http[c].pc = "compare"
                       /\ user.password.kind = "bcrypt"
                       /\ user.password.v = r.password
                       /\ sessions'[c] = [loggedIn |-> TRUE,
                                          username |-> user.username,
                                          role |-> user.role,
                                          doctorId |-> user.doctorId]
                 /\ (r.pc = "done" /\ r.response # Redirect("/dashboard"))
                    => /\ r.response \in LoginErrors
                       /\ sessions'[c] = sessions[c]]_vars

\* doctor1 is logged in with doctorId '1' while a login of the other
\* client was refused because the account is inactive
C18_Witness ==
    \E c, d \in Clients :
        /\ http[c].pc = "done" /\ http[c].route = "/login"
        /\ http[c].response = Redirect("/dashboard")
        /\ sessions[c] = [loggedIn |-> TRUE, username |-> "doctor1",
                          role |-> "doctor", doctorId |-> Str("1")]
        /\ http[d].pc = "done" /\ http[d].route = "/login"
        /\ http[d].response = Redirect("/login?error=Account is inactive")
        /\ ~sessions[d].loggedIn


CreateRoutes == {"/signup", "/api/users"}

\* C19: in src/server.js no two user records ever share a username, and a
\* step of POST /signup or POST /api/users whose username is taken ends
\* the request with an error, adding no user and leaving the users as
\* they are.
C19_UsernamesUnique ==
    /\ [](upload.impl = "server"
          => \A u, w \in users : u.username = w.username => u = w)
    /\ [][\A c \in Clients :
             (/\ upload.impl = "server"
              /\ http[c].route \in CreateRoutes
              /\ http[c].pc \in {"findOne", "save"}
              /\ http'[c] # http[c]
              /\ \E u \in users : u.username = http[c].username)
             => /\ users' = users
                /\ http'[c].pc = "done"
                /\ http'[c].response \in {AlreadyExists(http[c].route),
                                          SaveFailed(http[c].route)}]_vars

\* two requests raced for the same free username: one was created, the
\* save() of the other was rejected, and the username is there once
C19_Witness ==
    \E c, d \in Clients :
        /\ http[c].pc = "done" /\ http[c].route \in CreateRoutes
        /\ http[c].response = SaveFailed(http[c].route)
        /\ http[d].pc = "done" /\ http[d].route \in CreateRoutes
        /\ http[d].response = Created(http[d].route)
        /\ http[d].username = http[c].username
        /\ Cardinality({u \in users : u.username = http[c].username}) = 1


\* C20: every stored password is a hash, never the password itself, and
\* a login is accepted only when the user record it looked up holds the
\* hash of the password sent.
C20_PasswordsHashed ==
    /\ \A u \in users : u.password.kind = "bcrypt"
    /\ \A c \in Clients :
          (/\ http[c].pc = "done"
           /\ http[c].route = "/login"
           /\ http[c].response = Redirect("/dashboard"))
          => http[c].user.password = bcryptHash(http[c].password)

\* the routes of src/server.js (signup, admin create, admin reset, default
\* accounts) store hashes only
C20_ServerStoresHashes ==
    upload.impl = "server"
    => \A u \in users : u.password.kind = "bcrypt" /\ u.password # Str(u.password.v)


----------------------------------------------------------------------------
(* Properties of the phases of predict and of the model handle *)

\* whether every entry of the tensor preprocessImage yields is finite
C21_Finite ==
    [img \in {i \in PredictImages : ~preprocessImage(i).threw} |->
        \A j \in 0..(TensorLen - 1) : F32IsFinite(TensorData(Tensor(img), j))]

\* the outcome a finished call shows to its caller
C21_Outcome(q) ==
    IF q.outcome # "returned" THEN "Threw"
    ELSE IF ~q.result.usingDefaultPrediction THEN "Decided"
    ELSE IF q.result = DefaultPrediction THEN "DefaultedOnMissingModel"
    ELSE "DefaultedOnError"

\* C21: a predict call moves idle -> preprocessing -> inferring -> done
\* and never back; session.run is called only from preprocessing, on a
\* tensor that preprocessImage returned and whose entries are all finite;
\* the call ends once, as Decided (only out of inferring), as
\* DefaultedOnMissingModel (only at the call, without a model) or as
\* DefaultedOnError (only out of preprocessing or inferring).
C21_PhaseOrder ==
    [][\A r \in Reqs :
          req'[r] # req[r]
          => LET q == req[r]
                 n == req'[r]
             IN  /\ q.pc # "done"
                 /\ n.pc = "preprocessing" => q.pc = "idle" /\ sessionONNX # 0
                 /\ n.pc = "inferring"
                    => /\ q.pc = "preprocessing"
                       /\ n.img = q.img
                       /\ ~Preprocessed[q.img].threw
                       /\ C21_Finite[q.img]
                 /\ n.pc = "done"
                    => /\ C21_Outcome(n) = "Decided" => q.pc = "inferring"
                       /\ C21_Outcome(n) = "DefaultedOnMissingModel"
                          => q.pc = "idle" /\ sessionONNX = 0
                       /\ C21_Outcome(n) = "DefaultedOnError"
                          => q.pc \in {"preprocessing", "inferring"}
                       /\ C21_Outcome(n) # "Threw"]_vars

\* one call was decided by the model while another ended in the default
\* because preprocessImage threw
C21_Witness ==
    \E r, s \in Reqs :
        /\ req[r].pc = "done" /\ C21_Outcome(req[r]) = "Decided"
        /\ req[r].runs = 1
        /\ req[s].pc = "done" /\ C21_Outcome(req[s]) = "DefaultedOnError"
        /\ req[s].runs = 0 /\ req[s].preprocessed = 1


\* C22: a predict call calls preprocessImage and session.run at most once
\* each; a step of a call changes nothing but that call: sessionONNX,
\* modelLoadAttempts, isLoading, the pending load and the retry timers
\* stay as they are (no loadModel), and so do the other calls; the
\* confidence of a decided call is the model's output for its own image.
C22_NoRetryNoSharedState ==
    /\ [](\A r \in Reqs : req[r].runs <= 1 /\ req[r].preprocessed <= 1)
    /\ [][\A r \in Reqs :
             req'[r] # req[r]
             => /\ UNCHANGED <<sessionONNX, modelLoadAttempts, isLoading,
                               createPending, timers>>
                /\ \A s \in Reqs \ {r} : req'[s] = req[s]
                /\ (req'[r].pc = "done" /\ req[r].pc = "inferring"
                    /\ ~req'[r].result.usingDefaultPrediction)
                   => req'[r].result.confidence = modelOutputs[req[r].img]]_vars

\* a call is at session.run while another call, started on the same
\* model, has been decided after one run
C22_Witness ==
    \E r, s \in Reqs :
        /\ r # s
        /\ req[r].pc = "inferring"
        /\ req[s].pc = "done" /\ req[s].runs = 1
        /\ ~req[s].result.usingDefaultPrediction


\* C23: once sessionONNX holds a loaded session, no step assigns it again.
C23_HandleReadOnly ==
    [][sessionONNX # 0 => sessionONNX' = sessionONNX]_vars

\* a loaded session is never cleared: it is only replaced by a newer one
C23_HandleNeverCleared ==
    [][sessionONNX # 0 => sessionONNX' >= sessionONNX]_vars


\* loading is at rest: initialize() was called, no attempt is running and
\* no retry timer is pending
LoadingAtRest == initCalls > 0 /\ ~isLoading /\ ~createPending /\ timers = 0

\* a step in which a load attempt fails: loadModel throws before its await
\* (the timers pending then are those of before, less the one that fired),
\* or InferenceSession.create rejects
C24_FailsEarly == modelLoadAttempts' = modelLoadAttempts + 1 /\ ~isLoading'
C24_FailsLate == createPending /\ ~createPending' /\ sessionONNX' = sessionONNX
C24_PendingBefore ==
    IF C24_FailsEarly /\ initCalls' = initCalls /\ retryCalls' = retryCalls
    THEN timers - 1 ELSE timers

\* a failing attempt schedules one retry when fewer than maxLoadAttempts
\* attempts have been made, and none otherwise
C24_OneRetryPerFailure ==
    [][C24_FailsEarly \/ C24_FailsLate
       => timers' = C24_PendingBefore
                    + (IF modelLoadAttempts' < maxLoadAttempts THEN 1 ELSE 0)]_vars

\* C24: whenever loading is at rest after initialize(), the model is loaded
\* or exactly maxLoadAttempts attempts have been made; and every failing
\* attempt before the last schedules one retry, the last none.
C24_LoadingSettles ==
    /\ [](LoadingAtRest => sessionONNX # 0 \/ modelLoadAttempts = maxLoadAttempts)
    /\ C24_OneRetryPerFailure

\* the timer callbacks fire and InferenceSession.create settles
SpecFair == Spec /\ WF_vars(TimerFires) /\ WF_vars(CreateSettles)

\* after initialize(), loading comes to rest
C24_ComesToRest == (initCalls > 0) ~> LoadingAtRest


\* with one initialize() and no retryLoadModel(), loading at rest means
\* loaded or maxLoadAttempts attempts made
C24_SingleInitialize ==
    (LoadingAtRest /\ initCalls = 1 /\ retryCalls = 0)
    => sessionONNX # 0 \/ modelLoadAttempts = maxLoadAttempts


----------------------------------------------------------------------------
(* Properties of the answer of POST /predict *)

\* the 200 answer and the saved row carry the prediction, the confidence
\* and the default marker of the result predict returned
C25_Relays(result) ==
    /\ upload.response.prediction = result.prediction
    /\ upload.response.confidence = result.confidence
    /\ upload.response.usingDefaultPrediction = result.usingDefaultPrediction
    /\ patientResults # <<>>
    /\ patientResults[Len(patientResults)].prediction = result.prediction
    /\ patientResults[Len(patientResults)].confidence = result.confidence

C25_Answered == upload.pc = "done" /\ upload.response.status = 200

\* C25: every 200 answer of POST /predict relays the adapter's result, in
\* the response and in the saved row, and carries the default marker.
C25_ResultRelayed ==
    C25_Answered
    => IF upload.impl = "server"
       THEN C25_Relays(req[uploadCall].result)
       ELSE "usingDefaultPrediction" \in DOMAIN upload.response

\* src/server.js relays every result whose confidence is a number other
\* than 0
C25_RelayedWhenNonZero ==
    (/\ C25_Answered
     /\ upload.impl = "server"
     /\ IsNum(req[uploadCall].result.confidence)
     /\ req[uploadCall].result.confidence.v # 0)
    => C25_Relays(req[uploadCall].result)


\* src/server.js answered 0.8 for a real inference whose confidence is 0
C25_ZeroReplaced ==
    /\ C25_Answered
    /\ upload.impl = "server"
    /\ req[uploadCall].result.confidence = Num(0)
    /\ ~req[uploadCall].result.usingDefaultPrediction
    /\ upload.response.confidence = Num(80000)
    /\ patientResults[Len(patientResults)].confidence = Num(80000)


----------------------------------------------------------------------------
(* Properties of the roles *)

\* client d's last request was a POST /signup of src/server.js that
\* created the account username
C26_SignedUp(d, username) ==
    /\ upload.impl = "server"
    /\ http[d].pc = "done" /\ http[d].route = "/signup"
    /\ http[d].response = Created("/signup")
    /\ http[d].username = username

\* C26: an account created by POST /signup has the role 'user' or
\* 'doctor', and no session has the role 'admin' for an account that was
\* created by POST /signup.
C26_NoEscalation ==
    \A c, d \in Clients :
        /\ C26_SignedUp(d, http[d].username)
           => \A u \in users : u.username = http[d].username
                               => u.role \in {"user", "doctor"}
        /\ (sessions[c].loggedIn /\ sessions[c].role = "admin")
           => ~C26_SignedUp(d, sessions[c].username)

\* a client signed up as 'bob' with role 'admin' and another client then
\* logged in as bob and holds an admin session
C26_Escalated ==
    \E c, d \in Clients :
        /\ C26_SignedUp(d, "bob")
        /\ ~http[d].before.loggedIn
        /\ http[c].route = "/login" /\ http[c].response = Redirect("/dashboard")
        /\ ~http[c].before.loggedIn
        /\ sessions[c] = [loggedIn |-> TRUE, username |-> "bob", role |-> "admin",
                          doctorId |-> Undefined]

\* the signup of src/signup-routes.js creates 'user' and 'doctor' accounts
\* only
C26_LegacySignupRoles ==
    upload.impl = "legacy" => \A u \in users : u.role \in {"user", "doctor"}

----------------------------------------------------------------------------
(* Properties of the admin API and of the assessments *)

\* the session may read the assessments addressed to the doctor doctorId:
\* it is that doctor's session, or an admin's
C27_MayRead(session, doctorId) ==
    \/ session.role = "admin"
    \/ session.role = "doctor" /\ session.doctorId = Str(doctorId)

\* the assessments an answered request returned
C27_Returned(c) ==
    IF http[c].pc = "done" /\ http[c].route \in AssessmentRoutes
       /\ http[c].response.status = 200
    THEN http[c].response.rows
    ELSE {}

\* C27: the assessments addressed to a doctor are returned only to a session
\* of that doctor or to an admin session, whatever the route.
C27_AssessmentsConfidential ==
    \A c \in Clients : \A a \in C27_Returned(c) :
        C27_MayRead(http[c].before, a.doctorId)

\* a patient has read the assessments addressed to doctor 1 through
\* /api/test-doctor-data/:doctorId
C27_PatientReads ==
    \E c \in Clients :
        /\ http[c].before.role = "user"
        /\ http[c].route = "/api/test-doctor-data/:doctorId"
        /\ \E a \in C27_Returned(c) : a.doctorId = "1"

\* C27, the routes other than /api/test-doctor-data/:doctorId: what they
\* return goes to the doctor it is addressed to or to an admin.
C27_OtherRoutesConfidential ==
    \A c \in Clients :
        http[c].route # "/api/test-doctor-data/:doctorId"
            => \A a \in C27_Returned(c) : C27_MayRead(http[c].before, a.doctorId)

\* a doctor has read their own assessments through /api/getDoctorAssessments
C27_DoctorReadsOwn ==
    \E c \in Clients :
        /\ http[c].route = "/api/getDoctorAssessments"
        /\ C27_Returned(c) # {}

\* the accounts that are admins when the server starts
C28_Admins == {u \in StartUsers : u.role = "admin"}

\* C28: after any sequence of requests to the admin API, every account that
\* was an admin still exists, is still an admin and is still active.
C28_AdminsProtected ==
    \A a \in C28_Admins :
        \E u \in users : u.username = a.username /\ u.role = "admin" /\ u.is_active

\* PUT /api/admin/users/admin has answered 200 and the account admin is no
\* longer an active admin
C28_AdminChanged ==
    \E c \in Clients :
        /\ http[c].pc = "done"
        /\ http[c].route = "/api/admin/users/:username"
        /\ http[c].username = "admin"
        /\ http[c].response.status = 200
        /\ ~C28_AdminsProtected

\* C28, delete and toggle-status: when the account they look up is an
\* admin they answer 403 and change no account.
C28_DeleteAndToggleSpareAdmins ==
    [][\A c \in Clients :
            \/ DeleteLookupSettles(c) /\ findOne(users, http[c].username).role = "admin"
            \/ ToggleStatusSettles(c) /\ findOne(users, http[c].arg.v).role = "admin"
            => users' = users /\ http'[c].response.status = 403]_vars

\* delete and toggle-status have both refused to act on an admin account
C28_AdminRefused ==
    \E c, d \in Clients :
        /\ http[c].pc = "done" /\ http[c].route = "DELETE /api/admin/users/:username"
        /\ http[c].response.status = 403
        /\ http[d].pc = "done"
        /\ http[d].route = "/api/admin/users/:username/toggle-status"
        /\ http[d].response.status = 403

====
